---- MODULE Spec2Model ----
(***************************************************************************)
(* LangAi: the task-based LLM router (services/llm/router.ts), the three   *)
(* providers it routes across (claude.ts, openai.ts, qwen.ts) and the      *)
(* server-sent-event parser of their stream() generators.                  *)
(*                                                                         *)
(* Nine specifications share the module:                                   *)
(*   Spec          the router: registry, routing config, chat and stream   *)
(*                 calls, addProvider and updateConfig.                    *)
(*   StreamSpec    one provider stream() generator reading a response body *)
(*                 read by read and handing chunks to its consumer.        *)
(*   ProviderSpec  one HTTP exchange of a provider, called directly or     *)
(*                 through the router: the request it sends, the reply of  *)
(*                 the endpoint and what the caller gets.                  *)
(*   ConfigSpec    the routing config under updateConfig, and the object   *)
(*                 getConfig() hands to a caller who may write to it.      *)
(*   SingletonSpec the module-level router slot under getLLMRouter and     *)
(*                 resetLLMRouter.                                         *)
(*   ObjectSpec    the config objects of several routers as objects with   *)
(*                 addresses: what the spreads of the constructor,         *)
(*                 updateConfig and getConfig copy and what they share.    *)
(*   RecorderSpec  the AudioRecorder (services/audio/recorder.ts) under    *)
(*                 its calls, with expo-av answering each as it may.       *)
(*   LazySpec      the router with its stream() generator between creation *)
(*                 and first pull, chat calls and the reading calls.       *)
(*   StoreSpec     the app store (store/index.ts) and the TeacherAgent     *)
(*                 objects it creates, with sendMessage calls under way.   *)
(***************************************************************************)
EXTENDS Naturals, Sequences, FiniteSets

VARIABLES
    providers,   \* LLMRouter.providers: a Map, kept in insertion order
    config,      \* LLMRouter.config
    call,        \* the router call under observation and what came of it
    ops,         \* number of addProvider / updateConfig calls made so far
    sprov,       \* StreamSpec: the provider whose stream() runs
    body,        \* StreamSpec: the text of the response body written so far
    closed,      \* StreamSpec: the endpoint has ended the response body
    pos,         \* StreamSpec: how much of body the reader has delivered
    buffer,      \* StreamSpec: `buffer`, the incomplete line carried over
    lines,       \* StreamSpec: lines of the current read not yet processed
    spc,         \* StreamSpec: position of the generator
    out,         \* StreamSpec: the chunks handed to the consumer, in order
    pulls,       \* StreamSpec: the next() calls the consumer has made
    xch,         \* ProviderSpec: the call made, the endpoint's reply, the outcome
    copy,        \* ConfigSpec: the object a caller got from getConfig()
    hist,        \* ConfigSpec: what the constructor and updateConfig were given
    processEnv,  \* SingletonSpec: the credentials in process.env
    routerInstance, \* SingletonSpec: the module-level slot, 0 for null
    routers,     \* SingletonSpec: the routers constructed so far
    got,         \* SingletonSpec: what the latest getLLMRouter() returned
    mem,         \* ObjectSpec: the config objects in memory and who holds which
    rec,         \* RecorderSpec: the AudioRecorder and the latest call on it
    app          \* StoreSpec: the app store, the teachers and the requests under way

routerVars == <<providers, config, call, ops>>
streamVars == <<sprov, body, closed, pos, buffer, lines, spc, out, pulls>>
configVars == <<copy, hist>>
singletonVars == <<processEnv, routerInstance, routers, got>>
objectVars == <<mem>>
recorderVars == <<rec>>
storeVars == <<app>>
\* the variables that Spec and StreamSpec leave alone
otherVars == <<xch, copy, hist, processEnv, routerInstance, routers, got, mem, rec, app>>
vars == <<providers, config, call, ops, sprov, body, closed, pos, buffer, lines, spc, out, pulls,
          xch, copy, hist, processEnv, routerInstance, routers, got, mem, rec, app>>

-----------------------------------------------------------------------------
(* Bounds *)

\* addProvider / updateConfig calls explored after construction
MaxOps == 2

\* content chunks a provider stream hands to router.stream before its
\* terminal chunk
MaxForwarded == 1

\* lines of a response body
MaxLines == 3

\* writes a caller makes into an object it got from getConfig()
MaxWrites == 1

\* routers that getLLMRouter() constructs
MaxRouters == 2

\* recordings that startRecording() creates
MaxRecordings == 2

\* store.sendMessage calls, and teachers that setActiveLanguage creates
MaxSends == 2
MaxTeachers == 2

-----------------------------------------------------------------------------
(* types.ts *)

LLMProviderName == {"claude", "openai", "qwen", "gemini"}

TaskType == {"conversation", "grammar_correction", "cultural_explanation",
             "vocabulary", "exercise_generation", "translation"}

\* JavaScript's undefined as a value, and a key that an object does not have
Undef == "undefined"
Absent == "absent"

\* options?.taskType: a task type or undefined
TaskArg == TaskType \cup {Undef}

\* the result of Map.get / a factory for a missing entry
NoProvider == [name |-> Undef, apiKey |-> "", id |-> 0]

-----------------------------------------------------------------------------
(* Providers *)

\* process.env.EXPO_PUBLIC_*_API_KEY: unset (or empty) or a credential
EnvKey == {"", "sk"}

\* new XProvider({apiKey}); id tells instances apart (0: built at construction)
NewProvider(n, key, i) == [name |-> n, apiKey |-> key, id |-> i]

\* faulty variant: the factory builds an instance whatever the key is
CreateProvider_IgnoresKey(n, key) == NewProvider(n, key, 0)

\* createClaudeProvider / createOpenAIProvider / createQwenProvider:
\* null when the key is empty
CreateProvider(n, key) == IF key = "" THEN NoProvider ELSE NewProvider(n, key, 0)

\* isConfigured(): Boolean(this.apiKey)
IsConfigured(p) == p.apiKey # ""

\* faulty variant: every class writes the literal of claude.ts
ResponseProvider_CopiedLiteral(p) == "claude"

\* the literal each provider class writes into LLMResponse.provider
ResponseProvider(p) ==
    CASE p.name = "claude" -> "claude"
      [] p.name = "openai" -> "openai"
      [] p.name = "qwen" -> "qwen"
      [] OTHER -> p.name

\* fetch()'s response.status
HttpStatus == {200, 401}
HttpOk(s) == s >= 200 /\ s <= 299

-----------------------------------------------------------------------------
(* The registry: Map<LLMProviderName, LLMProvider> *)

MapHas(m, n) == \E i \in 1..Len(m) : m[i].name = n

MapGet(m, n) ==
    IF MapHas(m, n) THEN m[CHOOSE i \in 1..Len(m) : m[i].name = n] ELSE NoProvider

\* faulty variant: an existing key is deleted and set again, so it moves to
\* the end of the iteration order
MapSet_MovesToEnd(m, p) ==
    Append(SelectSeq(m, LAMBDA e : e.name # p.name), p)

\* faulty variant: the entry is pushed onto a list, an entry of the same name
\* stays where it was
MapSet_AppendsDuplicate(m, p) == Append(m, p)

\* Map.set: an existing key keeps its place and takes the new value
MapSet(m, p) ==
    IF MapHas(m, p.name)
    THEN [i \in 1..Len(m) |-> IF m[i].name = p.name THEN p ELSE m[i]]
    ELSE Append(m, p)

MapKeys(m) == {m[i].name : i \in 1..Len(m)}

\* getAvailableProviders(): Array.from(this.providers.keys())
GetAvailableProviders(m) == [i \in 1..Len(m) |-> m[i].name]

\* hasProvider(name): this.providers.has(name)
HasProvider(m, n) == MapHas(m, n)

\* initializeProviders(): claude, openai, qwen in this order, each if created
SetIfCreated(m, p) == IF p = NoProvider THEN m ELSE MapSet(m, p)

InitializeProviders(env) ==
    SetIfCreated(
        SetIfCreated(
            SetIfCreated(<<>>, CreateProvider("claude", env.claude)),
            CreateProvider("openai", env.openai)),
        CreateProvider("qwen", env.qwen))

-----------------------------------------------------------------------------
(* The routing config *)

DEFAULT_ROUTING_CONFIG ==
    [default |-> "claude",
     tasks |-> [t \in TaskType |->
        CASE t = "conversation" -> "claude"
          [] t = "grammar_correction" -> "qwen"
          [] t = "cultural_explanation" -> "claude"
          [] t = "vocabulary" -> "claude"
          [] t = "exercise_generation" -> "openai"
          [] t = "translation" -> "qwen"]]

NoTasks == [t \in TaskType |-> Absent]
NoOverride == [default |-> Absent, tasks |-> NoTasks]

\* faulty variant: { ...cur, ...partial }, the tasks of the argument replace
\* the tasks of the router
MergeConfig_TasksReplaced(cur, partial) ==
    [default |-> IF partial.default = Absent THEN cur.default ELSE partial.default,
     tasks |-> IF partial.tasks = NoTasks THEN cur.tasks
               ELSE [t \in TaskType |->
                        IF partial.tasks[t] = Absent THEN Undef ELSE partial.tasks[t]]]

\* faulty variant: { ...partial, ...cur, tasks: ... }, the spreads in the
\* other order, so that the current default wins
MergeConfig_SpreadReversed(cur, partial) ==
    [default |-> cur.default,
     tasks |-> [t \in TaskType |->
        IF partial.tasks[t] = Absent THEN cur.tasks[t] ELSE partial.tasks[t]]]

\* { ...cur, ...partial, tasks: { ...cur.tasks, ...partial?.tasks } }
MergeConfig(cur, partial) ==
    [default |-> IF partial.default = Absent THEN cur.default ELSE partial.default,
     tasks |-> [t \in TaskType |->
        IF partial.tasks[t] = Absent THEN cur.tasks[t] ELSE partial.tasks[t]]]

\* the task types that updateConfig calls name here: one for each provider
\* of the built-in table (claude, qwen, openai)
UpdateTasks == {"conversation", "grammar_correction", "exercise_generation"}

\* Partial<LLMRoutingConfig> values the callers pass: the default alone, one
\* task alone, or both as router.test.ts does; a named key may carry undefined
PartialConfig ==
    { [default |-> d, tasks |-> NoTasks] : d \in LLMProviderName \cup {Undef} }
    \cup
    { [default |-> Absent, tasks |-> [NoTasks EXCEPT ![t] = n]] :
        t \in UpdateTasks, n \in LLMProviderName \cup {Undef} }
    \cup
    { [default |-> "openai", tasks |-> [NoTasks EXCEPT !["conversation"] = "openai"]] }

\* configs handed to the constructor: new LLMRouter()
ConstructorConfig == { NoOverride }

-----------------------------------------------------------------------------
(* getProviderForTask *)

\* faulty variant: the task type is not looked up
ProviderNameFor_IgnoresTask(cfg, taskType) == cfg.default

\* faulty variant: a missing entry falls back to the built-in default, not to the
\* router's current one
ProviderNameFor_BuiltInDefault(cfg, taskType) ==
    IF taskType # Undef /\ cfg.tasks[taskType] # Undef
    THEN cfg.tasks[taskType]
    ELSE DEFAULT_ROUTING_CONFIG.default

\* the name the routing table gives for the task
ProviderNameFor(cfg, taskType) ==
    IF taskType # Undef /\ cfg.tasks[taskType] # Undef
    THEN cfg.tasks[taskType]
    ELSE cfg.default

\* faulty variant: a missing candidate falls back to the first registered provider
\* without trying the default
GetProviderForTask_SkipsDefault(cfg, m, taskType) ==
    LET provider == MapGet(m, ProviderNameFor(cfg, taskType))
    IN  IF provider # NoProvider THEN provider
        ELSE IF Len(m) > 0 THEN m[1]
        ELSE NoProvider

\* faulty variant: the last resort is the entry registered last
GetProviderForTask_LastRegistered(cfg, m, taskType) ==
    LET provider == MapGet(m, ProviderNameFor(cfg, taskType))
        fallback == IF provider = NoProvider THEN MapGet(m, cfg.default) ELSE provider
    IN  IF fallback # NoProvider THEN fallback
        ELSE IF Len(m) > 0 THEN m[Len(m)]
        ELSE NoProvider

\* the provider chosen, or NoProvider when the code throws
\* 'No LLM providers configured. Please set at least one API key.'
GetProviderForTask(cfg, m, taskType) ==
    LET provider == MapGet(m, ProviderNameFor(cfg, taskType))
        fallback == IF provider = NoProvider THEN MapGet(m, cfg.default) ELSE provider
    IN  IF fallback # NoProvider THEN fallback
        ELSE IF Len(m) > 0 THEN m[1]
        ELSE NoProvider

-----------------------------------------------------------------------------
(* Router calls *)

NoCall ==
    [kind |-> "none", task |-> Undef, st |-> "none", err |-> "none",
     errName |-> Undef, served |-> NoProvider, respProvider |-> Undef,
     requests |-> 0, chunks |-> 0]

\* provider.chat(messages, options) on p, the endpoint answering with status
ProviderChat(p, task, status) ==
    IF ~IsConfigured(p)
    THEN [NoCall EXCEPT !.kind = "chat", !.task = task, !.st = "failed",
                        !.err = "NotConfigured", !.errName = p.name, !.served = p]
    ELSE IF ~HttpOk(status)
    THEN [NoCall EXCEPT !.kind = "chat", !.task = task, !.st = "failed",
                        !.err = "UpstreamError", !.errName = p.name, !.served = p,
                        !.requests = 1]
    ELSE [NoCall EXCEPT !.kind = "chat", !.task = task, !.st = "returned",
                        !.served = p, !.respProvider = ResponseProvider(p),
                        !.requests = 1]

\* router.chat(messages, {taskType})
RouterChat(cfg, m, task, status) ==
    LET provider == GetProviderForTask(cfg, m, task)
    IN  IF provider = NoProvider
        THEN [NoCall EXCEPT !.kind = "chat", !.task = task, !.st = "failed",
                            !.err = "NoProviderConfigured"]
        ELSE ProviderChat(provider, task, status)

\* the first pull of provider.stream(messages, options) on p: the checks made
\* before the read loop
ProviderStreamOpen(p, task, status, hasBody) ==
    IF ~IsConfigured(p)
    THEN [NoCall EXCEPT !.kind = "stream", !.task = task, !.st = "failed",
                        !.err = "NotConfigured", !.errName = p.name, !.served = p]
    ELSE IF ~HttpOk(status)
    THEN [NoCall EXCEPT !.kind = "stream", !.task = task, !.st = "failed",
                        !.err = "UpstreamError", !.errName = p.name, !.served = p,
                        !.requests = 1]
    ELSE IF ~hasBody
    THEN [NoCall EXCEPT !.kind = "stream", !.task = task, !.st = "failed",
                        !.err = "NoResponseBody", !.errName = p.name, !.served = p,
                        !.requests = 1]
    ELSE [NoCall EXCEPT !.kind = "stream", !.task = task, !.st = "open",
                        !.served = p, !.requests = 1]

\* faulty variant: the empty registry is not noticed and the missing provider's
\* stream is opened
RouterStreamOpen_NoEmptyCheck(cfg, m, task, status, hasBody) ==
    ProviderStreamOpen(GetProviderForTask(cfg, m, task), task, status, hasBody)

\* the first pull of router.stream(messages, {taskType})
RouterStreamOpen(cfg, m, task, status, hasBody) ==
    LET provider == GetProviderForTask(cfg, m, task)
    IN  IF provider = NoProvider
        THEN [NoCall EXCEPT !.kind = "stream", !.task = task, !.st = "failed",
                            !.err = "NoProviderConfigured"]
        ELSE ProviderStreamOpen(provider, task, status, hasBody)

\* no call is under way, or only a generator that has not ended
Quiet(c) == c.st \in {"none", "created", "open"}

-----------------------------------------------------------------------------
(* One HTTP exchange of a provider: request, reply, outcome *)

\* an optional value: a key that is missing (or undefined), or a value
None == <<>>
Some(v) == <<v>>
IsSome(o) == Len(o) > 0
Get(o) == o[1]

Msg(r, c) == [role |-> r, content |-> c]

\* Message[] values the callers pass: no system message, one in front, one
\* between two turns, and two of them among the turns of the conversation
MessageLists ==
    { << Msg("user", "q") >>,
      << Msg("system", "s1"), Msg("user", "q") >>,
      << Msg("user", "q"), Msg("system", "s1"), Msg("user", "q2") >>,
      << Msg("user", "q"), Msg("system", "s1"), Msg("assistant", "r"),
         Msg("system", "s2") >> }

\* LLMOptions (or no options at all): temperature and maxTokens, each optional
OptionValues ==
    { [temperature |-> t, maxTokens |-> m] :
        t \in {None, Some(0), Some(1)}, m \in {None, Some(0), Some(256)} }

\* this.model: config.model || the default of the class
ModelOf(p) ==
    CASE p.name = "claude" -> "claude-3-5-sonnet-20241022"
      [] p.name = "openai" -> "gpt-4o"
      [] p.name = "qwen" -> "qwen-plus"

\* options?.maxTokens || 4096
MaxTokensOf(options) ==
    IF IsSome(options.maxTokens) /\ Get(options.maxTokens) # 0
    THEN Get(options.maxTokens) ELSE 4096

\* `${response.status}`
StatusText(s) ==
    CASE s = 200 -> "200"
      [] s = 401 -> "401"

\* text of a non-success response
ErrorText == {"", "denied"}

\* the JSON envelope of the Anthropic messages endpoint, as far as chat reads
\* it: content (an array of blocks, each with or without text) and usage
ClaudeEnvelopes ==
    { [content |-> c, usage |-> u] :
        c \in { None, Some(<<>>), Some(<< [text |-> "hi"] >>),
                Some(<< [text |-> Absent] >>) },
        u \in { None,
                Some([input_tokens |-> Some(3), output_tokens |-> Some(2)]),
                Some([input_tokens |-> Some(3), output_tokens |-> None]) } }

\* the JSON envelope of the chat completions endpoints of OpenAI and Qwen
OpenAIEnvelopes ==
    { [choices |-> c, usage |-> u] :
        c \in { None, Some(<<>>),
                Some(<< [message |-> Some([content |-> "hi"])] >>),
                Some(<< [message |-> None] >>) },
        u \in { None,
                Some([prompt_tokens |-> Some(3), completion_tokens |-> Some(2),
                      total_tokens |-> Some(5)]),
                Some([prompt_tokens |-> Some(3), completion_tokens |-> Some(2),
                      total_tokens |-> None]) } }

Envelopes(p) == IF p.name = "claude" THEN ClaudeEnvelopes ELSE OpenAIEnvelopes

\* what fetch() comes to: it rejects, or it resolves to a response
NoReply ==
    [kind |-> "none", status |-> 0, text |-> "", data |-> None, hasBody |-> FALSE]

Rejected == [NoReply EXCEPT !.kind = "rejected"]

\* non-success responses: status and raw text
ErrorReplies ==
    { [NoReply EXCEPT !.kind = "response", !.status = s, !.text = t, !.hasBody = TRUE] :
        s \in {s \in HttpStatus : ~HttpOk(s)}, t \in ErrorText }

\* replies to a chat request: data is the parsed body of a success response,
\* None when the body is not JSON
ChatReplies(p) ==
    {Rejected} \cup ErrorReplies \cup
    { [NoReply EXCEPT !.kind = "response", !.status = s, !.data = d, !.hasBody = TRUE] :
        s \in {s \in HttpStatus : HttpOk(s)},
        d \in {None} \cup {Some(e) : e \in Envelopes(p)} }

\* replies to a streaming request: a non-success response, a success
\* response, each with or without a body
StreamReplies ==
    {Rejected} \cup ErrorReplies \cup
    { [r EXCEPT !.text = "", !.hasBody = FALSE] : r \in ErrorReplies } \cup
    { [NoReply EXCEPT !.kind = "response", !.status = s, !.hasBody = b] :
        s \in {s \in HttpStatus : HttpOk(s)}, b \in BOOLEAN }

\* what a call comes to: the requests sent, and an error thrown, a Response
\* returned or, for stream, the read loop entered
NoResult ==
    [st |-> "none", err |-> "none", msg |-> <<>>, sent |-> <<>>, response |-> None]

Thrown(err, msg, sent) ==
    [NoResult EXCEPT !.st = "failed", !.err = err, !.msg = msg, !.sent = sent]

Returned(response, sent) ==
    [NoResult EXCEPT !.st = "returned", !.sent = sent, !.response = Some(response)]

Opened(sent) == [NoResult EXCEPT !.st = "open", !.sent = sent]

TextOrEmpty(t) == IF t = Absent THEN "" ELSE t
NumOrZero(o) == IF IsSome(o) THEN Get(o) ELSE 0

IsSystem(m) == m.role = "system"
IsNotSystem(m) == m.role # "system"

\* faulty variant: only the first message is looked at
FindSystem_LeadingOnly(messages) ==
    IF Len(messages) > 0 /\ IsSystem(messages[1]) THEN Some(messages[1]) ELSE None

\* messages.find((m) => m.role === 'system')
FindSystem(messages) ==
    LET found == SelectSeq(messages, IsSystem)
    IN  IF Len(found) > 0 THEN Some(found[1]) ELSE None

\* messages.map((m) => ({ role: m.role, content: m.content }))
MapRoleContent(messages) ==
    [i \in 1..Len(messages) |-> Msg(messages[i].role, messages[i].content)]

\* the fetch() of ClaudeProvider: key header and JSON body; a key whose value
\* is undefined is left out by JSON.stringify
ClaudeRequest(p, messages, options, streaming) ==
    LET systemMessage == FindSystem(messages)
        conversationMessages == MapRoleContent(SelectSeq(messages, IsNotSystem))
    IN  [url |-> "api.anthropic.com/v1/messages",
         key |-> p.apiKey,
         model |-> ModelOf(p),
         max_tokens |-> MaxTokensOf(options),
         system |-> IF IsSome(systemMessage)
                    THEN Some(Get(systemMessage).content) ELSE None,
         messages |-> conversationMessages,
         stream |-> streaming,
         temperature |-> options.temperature]

\* faulty variant: `options?.temperature && {...}`, a temperature of 0 is
\* left out like a missing one
OpenAIRequest_TruthyTemperature(p, messages, options, streaming) ==
    [url |-> "api.openai.com/v1/chat/completions",
     key |-> p.apiKey,
     model |-> ModelOf(p),
     messages |-> MapRoleContent(messages),
     max_tokens |-> MaxTokensOf(options),
     stream |-> streaming,
     temperature |-> IF IsSome(options.temperature) /\ Get(options.temperature) # 0
                     THEN options.temperature ELSE None]

\* the fetch() of OpenAIProvider
OpenAIRequest(p, messages, options, streaming) ==
    [url |-> "api.openai.com/v1/chat/completions",
     key |-> p.apiKey,
     model |-> ModelOf(p),
     messages |-> MapRoleContent(messages),
     max_tokens |-> MaxTokensOf(options),
     stream |-> streaming,
     temperature |-> options.temperature]

\* the fetch() of QwenProvider
QwenRequest(p, messages, options, streaming) ==
    [url |-> "dashscope.aliyuncs.com/compatible-mode/v1/chat/completions",
     key |-> p.apiKey,
     model |-> ModelOf(p),
     messages |-> MapRoleContent(messages),
     max_tokens |-> MaxTokensOf(options),
     stream |-> streaming,
     temperature |-> options.temperature]

\* the name a provider's error messages start with
DisplayName(p) ==
    CASE p.name = "claude" -> "Claude"
      [] p.name = "openai" -> "OpenAI"
      [] p.name = "qwen" -> "Qwen"

\* faulty variant: the request is sent before the credential is looked at
Preamble_CheckAfterFetch(p, sent, reply) ==
    IF ~IsConfigured(p)
    THEN Some(Thrown("NotConfigured", <<DisplayName(p), " API key not configured">>, sent))
    ELSE IF reply.kind = "rejected"
    THEN Some(Thrown("FetchRejected", <<"Network request failed">>, sent))
    ELSE IF ~HttpOk(reply.status)
    THEN Some(Thrown("UpstreamError",
                     <<DisplayName(p), " API error: ", StatusText(reply.status),
                       " - ", reply.text>>, sent))
    ELSE None

\* from the isConfigured() check to `if (!response.ok)`, the same in chat and
\* stream of the three classes: None when the response is a success, else the
\* error thrown; sent is the request that fetch() would issue
Preamble(p, sent, reply) ==
    IF ~IsConfigured(p)
    THEN Some(Thrown("NotConfigured", <<DisplayName(p), " API key not configured">>, <<>>))
    ELSE IF reply.kind = "rejected"
    THEN Some(Thrown("FetchRejected", <<"Network request failed">>, sent))
    ELSE IF ~HttpOk(reply.status)
    THEN Some(Thrown("UpstreamError",
                     <<DisplayName(p), " API error: ", StatusText(reply.status),
                       " - ", reply.text>>, sent))
    ELSE None

\* ClaudeProvider.chat
ClaudeChat(p, messages, options, reply) ==
    LET sent == << ClaudeRequest(p, messages, options, None) >>
        early == Preamble(p, sent, reply)
    IN  IF IsSome(early) THEN Get(early)
        ELSE IF ~IsSome(reply.data)
        THEN Thrown("SyntaxError", <<"Unexpected token in JSON">>, sent)
        ELSE LET data == Get(reply.data)
             IN  IF ~IsSome(data.content)
                 THEN Thrown("TypeError",
                             <<"Cannot read properties of undefined (reading '0')">>, sent)
                 ELSE LET content == Get(data.content)
                          inputTokens ==
                              IF IsSome(data.usage)
                              THEN NumOrZero(Get(data.usage).input_tokens) ELSE 0
                          outputTokens ==
                              IF IsSome(data.usage)
                              THEN NumOrZero(Get(data.usage).output_tokens) ELSE 0
                      IN  Returned(
                            [content |-> IF Len(content) > 0
                                         THEN TextOrEmpty(content[1].text) ELSE "",
                             usage |-> [inputTokens |-> inputTokens,
                                        outputTokens |-> outputTokens,
                                        totalTokens |-> inputTokens + outputTokens],
                             model |-> ModelOf(p),
                             provider |-> "claude"], sent)

\* data.choices[0]?.message?.content || ''
FirstChoiceContent(choices) ==
    IF Len(choices) > 0 /\ IsSome(choices[1].message)
    THEN TextOrEmpty(Get(choices[1].message).content) ELSE ""

\* the usage block of OpenAIProvider.chat and QwenProvider.chat
OpenAIUsage(usage) ==
    [inputTokens |-> IF IsSome(usage) THEN NumOrZero(Get(usage).prompt_tokens) ELSE 0,
     outputTokens |-> IF IsSome(usage) THEN NumOrZero(Get(usage).completion_tokens) ELSE 0,
     totalTokens |-> IF IsSome(usage) THEN NumOrZero(Get(usage).total_tokens) ELSE 0]

\* OpenAIProvider.chat
OpenAIChat(p, messages, options, reply) ==
    LET sent == << OpenAIRequest(p, messages, options, None) >>
        early == Preamble(p, sent, reply)
    IN  IF IsSome(early) THEN Get(early)
        ELSE IF ~IsSome(reply.data)
        THEN Thrown("SyntaxError", <<"Unexpected token in JSON">>, sent)
        ELSE LET data == Get(reply.data)
             IN  IF ~IsSome(data.choices)
                 THEN Thrown("TypeError",
                             <<"Cannot read properties of undefined (reading '0')">>, sent)
                 ELSE Returned(
                        [content |-> FirstChoiceContent(Get(data.choices)),
                         usage |-> OpenAIUsage(data.usage),
                         model |-> ModelOf(p),
                         provider |-> "openai"], sent)

\* QwenProvider.chat
QwenChat(p, messages, options, reply) ==
    LET sent == << QwenRequest(p, messages, options, None) >>
        early == Preamble(p, sent, reply)
    IN  IF IsSome(early) THEN Get(early)
        ELSE IF ~IsSome(reply.data)
        THEN Thrown("SyntaxError", <<"Unexpected token in JSON">>, sent)
        ELSE LET data == Get(reply.data)
             IN  IF ~IsSome(data.choices)
                 THEN Thrown("TypeError",
                             <<"Cannot read properties of undefined (reading '0')">>, sent)
                 ELSE Returned(
                        [content |-> FirstChoiceContent(Get(data.choices)),
                         usage |-> OpenAIUsage(data.usage),
                         model |-> ModelOf(p),
                         provider |-> "qwen"], sent)

\* provider.chat(messages, options) on an instance of one of the three classes
ChatOf(p, messages, options, reply) ==
    CASE p.name = "claude" -> ClaudeChat(p, messages, options, reply)
      [] p.name = "openai" -> OpenAIChat(p, messages, options, reply)
      [] p.name = "qwen" -> QwenChat(p, messages, options, reply)

\* faulty variant: the body is looked for before the status
StreamOpenOf_BodyCheckFirst(p, messages, options, reply) ==
    LET sent == << CASE p.name = "claude" -> ClaudeRequest(p, messages, options, Some(TRUE))
                     [] p.name = "openai" -> OpenAIRequest(p, messages, options, Some(TRUE))
                     [] p.name = "qwen" -> QwenRequest(p, messages, options, Some(TRUE)) >>
        early == Preamble(p, sent, reply)
    IN  IF IsConfigured(p) /\ reply.kind = "response" /\ ~reply.hasBody
        THEN Thrown("NoResponseBody", <<"No response body">>, sent)
        ELSE IF IsSome(early) THEN Get(early)
        ELSE Opened(sent)

\* the first pull of provider.stream(messages, options): up to the read loop
StreamOpenOf(p, messages, options, reply) ==
    LET sent == << CASE p.name = "claude" -> ClaudeRequest(p, messages, options, Some(TRUE))
                     [] p.name = "openai" -> OpenAIRequest(p, messages, options, Some(TRUE))
                     [] p.name = "qwen" -> QwenRequest(p, messages, options, Some(TRUE)) >>
        early == Preamble(p, sent, reply)
    IN  IF IsSome(early) THEN Get(early)
        ELSE IF ~reply.hasBody THEN Thrown("NoResponseBody", <<"No response body">>, sent)
        ELSE Opened(sent)

\* faulty variant: a call that failed upstream is made once more
RouterChatExchange_RetriesOnce(cfg, m, messages, options, task, reply) ==
    LET provider == GetProviderForTask(cfg, m, task)
        first == ChatOf(provider, messages, options, reply)
    IN  IF provider = NoProvider
        THEN Thrown("NoProviderConfigured",
                    <<"No LLM providers configured. Please set at least one API key.">>,
                    <<>>)
        ELSE IF first.err = "UpstreamError"
        THEN [first EXCEPT !.sent = first.sent \o first.sent]
        ELSE first

\* router.chat(messages, options) with the whole exchange
RouterChatExchange(cfg, m, messages, options, task, reply) ==
    LET provider == GetProviderForTask(cfg, m, task)
    IN  IF provider = NoProvider
        THEN Thrown("NoProviderConfigured",
                    <<"No LLM providers configured. Please set at least one API key.">>,
                    <<>>)
        ELSE ChatOf(provider, messages, options, reply)

\* the first pull of router.stream(messages, options) with the whole exchange
RouterStreamExchange(cfg, m, messages, options, task, reply) ==
    LET provider == GetProviderForTask(cfg, m, task)
    IN  IF provider = NoProvider
        THEN Thrown("NoProviderConfigured",
                    <<"No LLM providers configured. Please set at least one API key.">>,
                    <<>>)
        ELSE StreamOpenOf(provider, messages, options, reply)

\* instances of the three provider classes, with and without a credential
ProviderInstances ==
    { NewProvider(n, key, 0) : n \in {"claude", "openai", "qwen"}, key \in EnvKey }

NoOptions == [temperature |-> None, maxTokens |-> None]

NoExchange ==
    [via |-> "none", op |-> "none", task |-> Undef, messages |-> <<>>,
     options |-> NoOptions, reply |-> NoReply, served |-> NoProvider,
     result |-> NoResult, produced |-> <<>>, forwarded |-> <<>>]

-----------------------------------------------------------------------------
(* getConfig() results and what the router was told, for ConfigSpec; the   *)
(* module-level slot, for SingletonSpec                                    *)

\* a caller holds no getConfig() result
NoCopy == [held |-> FALSE, default |-> Undef, shared |-> FALSE, tasks |-> NoTasks]

\* nothing was passed to the constructor or to updateConfig
NoHist ==
    [initial |-> DEFAULT_ROUTING_CONFIG, arg |-> NoOverride, named |-> NoOverride,
     writes |-> 0]

\* no credential in the environment
NoEnv == [claude |-> "", openai |-> "", qwen |-> ""]

\* the value of a variable that the specification at hand keeps no track of
Untracked == <<>>

ConfigIdle ==
    /\ copy = Untracked
    /\ hist = Untracked

SingletonIdle ==
    /\ processEnv = NoEnv
    /\ routerInstance = 0
    /\ routers = <<>>
    /\ got = 0

ObjectIdle == mem = Untracked

RecorderIdle == rec = Untracked
StoreIdle == app = Untracked

OthersIdle ==
    /\ xch = Untracked
    /\ ConfigIdle
    /\ SingletonIdle
    /\ ObjectIdle
    /\ RecorderIdle
    /\ StoreIdle

-----------------------------------------------------------------------------
(* Router actions *)

RouterInit ==
    /\ \E env \in [claude : EnvKey, openai : EnvKey, qwen : EnvKey],
          override \in ConstructorConfig :
          /\ providers = InitializeProviders(env)
          /\ config = MergeConfig(DEFAULT_ROUTING_CONFIG, override)
    /\ call = NoCall
    /\ ops = 0

StreamIdle ==
    /\ sprov = NoProvider
    /\ body = <<>>
    /\ closed = FALSE
    /\ pos = 0
    /\ buffer = <<>>
    /\ lines = <<>>
    /\ spc = "idle"
    /\ out = <<>>
    /\ pulls = 0

Init == RouterInit /\ StreamIdle /\ OthersIdle

\* faulty variant: a call served by a fallback writes the provider that served
\* it into the routing table
Chat_RewritesOnFallback ==
    \E task \in TaskArg, status \in HttpStatus :
        /\ call = NoCall
        /\ call' = RouterChat(config, providers, task, status)
        /\ config' = IF /\ task # Undef
                        /\ call'.served # NoProvider
                        /\ call'.served.name # ProviderNameFor(config, task)
                     THEN [config EXCEPT !.tasks[task] = call'.served.name]
                     ELSE config
        /\ UNCHANGED <<providers, ops>>
        /\ UNCHANGED streamVars
        /\ UNCHANGED otherVars

Chat ==
    \E task \in TaskArg, status \in HttpStatus :
        /\ call = NoCall
        /\ call' = RouterChat(config, providers, task, status)
        /\ UNCHANGED <<providers, config, ops>>
        /\ UNCHANGED streamVars
        /\ UNCHANGED otherVars

\* router.stream(...): the generator object is made, none of its code has run
StreamCall ==
    \E task \in TaskArg :
        /\ call = NoCall
        /\ call' = [NoCall EXCEPT !.kind = "stream", !.task = task, !.st = "created"]
        /\ UNCHANGED <<providers, config, ops>>
        /\ UNCHANGED streamVars
        /\ UNCHANGED otherVars

\* the consumer pulls: the first pull picks the provider and opens its stream,
\* later pulls forward the provider's chunks up to its terminal chunk
StreamPull ==
    /\ call.kind = "stream"
    /\ \/ /\ call.st = "created"
          /\ \E status \in HttpStatus, hasBody \in BOOLEAN :
                call' = RouterStreamOpen(config, providers, call.task, status, hasBody)
       \/ /\ call.st = "open"
          /\ \E last \in BOOLEAN :
                /\ ~last => call.chunks < MaxForwarded
                /\ call' = [call EXCEPT !.chunks = call.chunks + 1,
                                        !.st = IF last THEN "done" ELSE "open"]
    /\ UNCHANGED <<providers, config, ops>>
    /\ UNCHANGED streamVars
    /\ UNCHANGED otherVars

\* the caller is done with the call: it has taken the Response or the error,
\* or it stops iterating the generator
Settle ==
    /\ call # NoCall
    /\ call' = NoCall
    /\ UNCHANGED <<providers, config, ops>>
    /\ UNCHANGED streamVars
    /\ UNCHANGED otherVars

AddProvider ==
    /\ ops < MaxOps
    /\ Quiet(call)
    /\ \E n \in LLMProviderName, key \in EnvKey :
          providers' = MapSet(providers, NewProvider(n, key, ops + 1))
    /\ ops' = ops + 1
    /\ UNCHANGED <<config, call>>
    /\ UNCHANGED streamVars
    /\ UNCHANGED otherVars

UpdateConfig ==
    /\ ops < MaxOps
    /\ Quiet(call)
    /\ \E partial \in PartialConfig : config' = MergeConfig(config, partial)
    /\ ops' = ops + 1
    /\ UNCHANGED <<providers, call>>
    /\ UNCHANGED streamVars
    /\ UNCHANGED otherVars

Next ==
    \/ Chat
    \/ StreamCall
    \/ StreamPull
    \/ Settle
    \/ AddProvider
    \/ UpdateConfig

Spec == Init /\ [][Next]_vars

-----------------------------------------------------------------------------
(* The router's stream() generator between its creation and its first     *)
(* pull.  LazySpec is Spec on fewer routers, with the reading calls as     *)
(* steps and with one addition: the call                                   *)
(* record notes in atCall what getProviderForTask would have returned when *)
(* stream() was called.  The generator itself holds no such thing: its     *)
(* body, line 211 included, runs at the first next().                      *)

\* the call record c with the note p
Noting(c, p) ==
    [kind |-> c.kind, task |-> c.task, st |-> c.st, err |-> c.err,
     errName |-> c.errName, served |-> c.served, respProvider |-> c.respProvider,
     requests |-> c.requests, chunks |-> c.chunks, atCall |-> p]

\* faulty variant: getProviderForTask runs when stream() is called
FirstPull_ResolvedAtCall(c, cfg, m, status, hasBody) ==
    IF c.atCall = NoProvider
    THEN RouterStreamOpen(cfg, m, c.task, status, hasBody)
    ELSE ProviderStreamOpen(c.atCall, c.task, status, hasBody)

\* the first next() on the generator c: lines 211 and 212 up to the first chunk
FirstPull(c, cfg, m, status, hasBody) ==
    RouterStreamOpen(cfg, m, c.task, status, hasBody)

\* the routers followed here: built with all three keys, with Claude's alone
\* or with all but Claude's
LazyInit ==
    /\ \E env \in { [claude |-> "sk", openai |-> "sk", qwen |-> "sk"],
                     [claude |-> "sk", openai |-> "", qwen |-> ""],
                     [claude |-> "", openai |-> "sk", qwen |-> "sk"] } :
          /\ providers = InitializeProviders(env)
          /\ config = DEFAULT_ROUTING_CONFIG
    /\ call = NoCall
    /\ ops = 0
    /\ StreamIdle
    /\ OthersIdle

\* the task types streamed here: the ones updateConfig reroutes, and none
LazyTasks == UpdateTasks \cup {Undef}

\* router.stream(...): the generator object is made, none of its code has run
LazyStreamCall ==
    \E task \in LazyTasks :
        /\ call = NoCall
        /\ call' = Noting([NoCall EXCEPT !.kind = "stream", !.task = task,
                                         !.st = "created"],
                          GetProviderForTask(config, providers, task))
        /\ UNCHANGED <<providers, config, ops>>
        /\ UNCHANGED streamVars
        /\ UNCHANGED otherVars

\* the consumer's first pull
LazyFirstPull ==
    /\ call.kind = "stream"
    /\ call.st = "created"
    /\ \E status \in HttpStatus, hasBody \in BOOLEAN :
          call' = Noting(FirstPull(call, config, providers, status, hasBody),
                         call.atCall)
    /\ UNCHANGED <<providers, config, ops>>
    /\ UNCHANGED streamVars
    /\ UNCHANGED otherVars

\* a later pull: the provider's next chunk is forwarded
LazyLaterPull ==
    /\ call.kind = "stream"
    /\ call.st = "open"
    /\ \E last \in BOOLEAN :
          /\ ~last => call.chunks < MaxForwarded
          /\ call' = [call EXCEPT !.chunks = call.chunks + 1,
                                  !.st = IF last THEN "done" ELSE "open"]
    /\ UNCHANGED <<providers, config, ops>>
    /\ UNCHANGED streamVars
    /\ UNCHANGED otherVars

\* getConfig(), hasProvider(name) or getAvailableProviders(): the call reads
\* and returns
LazyQuery ==
    /\ call = NoCall
    /\ \E q \in {"getConfig", "hasProvider", "getAvailableProviders"} :
          call' = [NoCall EXCEPT !.kind = q, !.st = "returned"]
    /\ UNCHANGED <<providers, config, ops>>
    /\ UNCHANGED streamVars
    /\ UNCHANGED otherVars

LazyNext ==
    \/ LazyStreamCall
    \/ LazyFirstPull
    \/ LazyLaterPull
    \/ Chat
    \/ LazyQuery
    \/ Settle
    \/ AddProvider
    \/ UpdateConfig

LazySpec == LazyInit /\ [][LazyNext]_vars

-----------------------------------------------------------------------------
(* Response bodies of a streaming request                                  *)
(*                                                                         *)
(* Text is a sequence of atoms: "\n", "\r", " ", the five characters       *)
(* "data:", the marker "[DONE]", and whole JSON documents.  A read may end *)
(* between any two atoms, so also inside a line and inside "data: ".       *)

NL == "\n"
CR == "\r"
SP == " "
DATA == "data:"
DONE == "[DONE]"

\* JSON documents the endpoints send, by what the providers look at:
\*   cbd_a, cbd_b   {"type":"content_block_delta","delta":{"text":"a"}} ("b")
\*   cbd_nodelta    {"type":"content_block_delta"}
\*   msg_stop       {"type":"message_stop"}
\*   oa_a, oa_b     {"choices":[{"delta":{"content":"a"}}]} ("b")
\*   oa_empty       {"choices":[{"delta":{}}]}
\*   bad            text that is not JSON, such as a cut-off document
ClaudeDocs == {"cbd_a", "cbd_b", "cbd_nodelta", "msg_stop"}
OpenAIDocs == {"oa_a", "oa_b", "oa_empty"}
JsonDocs == ClaudeDocs \cup OpenAIDocs

\* String.prototype.trim: white space off both ends
RECURSIVE TrimLeft(_)
TrimLeft(t) ==
    IF t # <<>> /\ Head(t) \in {SP, CR, NL} THEN TrimLeft(Tail(t)) ELSE t

RECURSIVE TrimRight(_)
TrimRight(t) ==
    IF t # <<>> /\ t[Len(t)] \in {SP, CR, NL}
    THEN TrimRight(SubSeq(t, 1, Len(t) - 1))
    ELSE t

Trim(t) == TrimRight(TrimLeft(t))

\* JSON.parse(text): the document, or "throws" for a SyntaxError; JSON allows
\* white space around the value
JSONParse(t) ==
    LET v == Trim(t)
    IN  IF Len(v) = 1 /\ v[1] \in JsonDocs THEN v[1] ELSE "throws"

\* parsed.type
JsonType(d) ==
    CASE d \in {"cbd_a", "cbd_b", "cbd_nodelta"} -> "content_block_delta"
      [] d = "msg_stop" -> "message_stop"
      [] OTHER -> Undef

\* parsed.delta?.text
JsonDeltaText(d) ==
    CASE d = "cbd_a" -> "a"
      [] d = "cbd_b" -> "b"
      [] OTHER -> Undef

\* parsed.choices is an array / parsed.choices[0]?.delta?.content
JsonHasChoices(d) == d \in OpenAIDocs

JsonDeltaContent(d) ==
    CASE d = "oa_a" -> "a"
      [] d = "oa_b" -> "b"
      [] OTHER -> Undef

\* x || '' for a string or undefined x
OrEmpty(x) == IF x = Undef \/ x = "" THEN "" ELSE x

\* buffer.split('\n'): the pieces between the newlines, the last one being
\* what follows the last newline
RECURSIVE SplitNL(_, _, _)
SplitNL(t, cur, acc) ==
    IF t = <<>> THEN Append(acc, cur)
    ELSE IF Head(t) = NL THEN SplitNL(Tail(t), <<>>, Append(acc, cur))
    ELSE SplitNL(Tail(t), Append(cur, Head(t)), acc)

\* faulty variant: what follows the last newline is not carried to the next read
Split_NoCarry(t) ==
    LET s == SplitNL(t, <<>>, <<>>) IN [s EXCEPT ![Len(s)] = <<>>]

Split(t) == SplitNL(t, <<>>, <<>>)

\* line.startsWith('data: ') and line.slice(6)
StartsWithData(line) == Len(line) >= 2 /\ line[1] = DATA /\ line[2] = SP
Slice6(line) == SubSeq(line, 3, Len(line))

Chunk(c, d) == [content |-> c, done |-> d]
Terminal == Chunk("", TRUE)

\* what one pass of the for loop does with a line:
\* yields a chunk or not, and returns from the generator or not
NoEvent == [yields |-> FALSE, chunk |-> Terminal, ends |-> FALSE]
Yield(c) == [yields |-> TRUE, chunk |-> c, ends |-> FALSE]
YieldAndReturn(c) == [yields |-> TRUE, chunk |-> c, ends |-> TRUE]

\* faulty variant: the [DONE] branch yields the terminal chunk and does not return
ClaudeLine_NoReturn(line) ==
    IF ~StartsWithData(line) THEN NoEvent
    ELSE LET data == Slice6(line)
             parsed == JSONParse(data)
         IN  IF data = <<DONE>> THEN Yield(Terminal)
             ELSE IF parsed = "throws" THEN NoEvent
             ELSE IF JsonType(parsed) = "content_block_delta"
             THEN Yield(Chunk(OrEmpty(JsonDeltaText(parsed)), FALSE))
             ELSE NoEvent

\* ClaudeProvider.stream, the body of its for loop
ClaudeLine(line) ==
    IF ~StartsWithData(line) THEN NoEvent
    ELSE LET data == Slice6(line)
             parsed == JSONParse(data)
         IN  IF data = <<DONE>> THEN YieldAndReturn(Terminal)
             ELSE IF parsed = "throws" THEN NoEvent
             ELSE IF JsonType(parsed) = "content_block_delta"
             THEN Yield(Chunk(OrEmpty(JsonDeltaText(parsed)), FALSE))
             ELSE NoEvent

\* faulty variant: a line that fails to parse ends the stream
OpenAILine_AbortOnBadJson(line) ==
    IF ~StartsWithData(line) THEN NoEvent
    ELSE LET data == Trim(Slice6(line))
             parsed == JSONParse(data)
         IN  IF data = <<DONE>> THEN YieldAndReturn(Terminal)
             ELSE IF parsed = "throws" THEN YieldAndReturn(Terminal)
             ELSE IF ~JsonHasChoices(parsed) THEN NoEvent
             ELSE IF OrEmpty(JsonDeltaContent(parsed)) # ""
             THEN Yield(Chunk(OrEmpty(JsonDeltaContent(parsed)), FALSE))
             ELSE NoEvent

\* OpenAIProvider.stream, the body of its for loop; parsed.choices[0] of a
\* document without choices is a TypeError, caught like a SyntaxError
OpenAILine(line) ==
    IF ~StartsWithData(line) THEN NoEvent
    ELSE LET data == Trim(Slice6(line))
             parsed == JSONParse(data)
         IN  IF data = <<DONE>> THEN YieldAndReturn(Terminal)
             ELSE IF parsed = "throws" THEN NoEvent
             ELSE IF ~JsonHasChoices(parsed) THEN NoEvent
             ELSE IF OrEmpty(JsonDeltaContent(parsed)) # ""
             THEN Yield(Chunk(OrEmpty(JsonDeltaContent(parsed)), FALSE))
             ELSE NoEvent

\* faulty variant: a delta without content is yielded as an empty chunk
QwenLine_YieldsEmpty(line) ==
    IF ~StartsWithData(line) THEN NoEvent
    ELSE LET data == Trim(Slice6(line))
             parsed == JSONParse(data)
         IN  IF data = <<DONE>> THEN YieldAndReturn(Terminal)
             ELSE IF parsed = "throws" THEN NoEvent
             ELSE IF ~JsonHasChoices(parsed) THEN NoEvent
             ELSE Yield(Chunk(OrEmpty(JsonDeltaContent(parsed)), FALSE))

\* QwenProvider.stream, the body of its for loop
QwenLine(line) ==
    IF ~StartsWithData(line) THEN NoEvent
    ELSE LET data == Trim(Slice6(line))
             parsed == JSONParse(data)
         IN  IF data = <<DONE>> THEN YieldAndReturn(Terminal)
             ELSE IF parsed = "throws" THEN NoEvent
             ELSE IF ~JsonHasChoices(parsed) THEN NoEvent
             ELSE IF OrEmpty(JsonDeltaContent(parsed)) # ""
             THEN Yield(Chunk(OrEmpty(JsonDeltaContent(parsed)), FALSE))
             ELSE NoEvent

LineEvent(p, line) ==
    CASE p.name = "claude" -> ClaudeLine(line)
      [] p.name = "openai" -> OpenAILine(line)
      [] OTHER -> QwenLine(line)

\* the for loop from its current line on, up to its next yield: the lines
\* left after it and what happened (NoEvent: the loop ran out of lines)
RECURSIVE RunLoop(_, _)
RunLoop(p, ls) ==
    IF ls = <<>> THEN [rest |-> <<>>, ev |-> NoEvent]
    ELSE LET ev == LineEvent(p, Head(ls))
         IN  IF ev.yields THEN [rest |-> Tail(ls), ev |-> ev]
             ELSE RunLoop(p, Tail(ls))

-----------------------------------------------------------------------------
(* StreamSpec: one provider stream() generator and its consumer *)

\* lines the endpoint writes, without their newline
CommonLines ==
    { <<DATA, SP, DONE>>, <<DATA, SP, "bad">>, <<>> }

ClaudeLines ==
    { <<DATA, SP, d>> : d \in ClaudeDocs }

OpenAILines ==
    { <<DATA, SP, d>> : d \in OpenAIDocs } \cup { <<DATA, SP, "msg_stop">> }

WireLines(p) ==
    CommonLines \cup (IF p.name = "claude" THEN ClaudeLines ELSE OpenAILines)

\* lines that the end of the body cuts off before their newline
CutOffLines(p) ==
    { <<DATA, SP, DONE>>, <<DATA, SP, DONE, CR>>,
      <<DATA, SP, IF p.name = "claude" THEN "cbd_a" ELSE "oa_a">> }

NumLines(t) == Cardinality({i \in 1..Len(t) : t[i] = NL})

StreamInit ==
    /\ providers = <<>>
    /\ config = DEFAULT_ROUTING_CONFIG
    /\ call = NoCall
    /\ ops = 0
    /\ sprov \in {NewProvider(n, key, 0) : n \in {"claude", "openai", "qwen"}, key \in EnvKey}
    /\ body = <<>>
    /\ closed = FALSE
    /\ pos = 0
    /\ buffer = <<>>
    /\ lines = <<>>
    /\ spc = "created"
    /\ out = <<>>
    /\ pulls = 0
    /\ OthersIdle

\* faulty variant: the generator does not wait at a yield for the next pull
\* but goes on to the next reader.read()
Resume_ReadsAhead(ls, buf) ==
    LET r == RunLoop(sprov, ls)
    IN  /\ buffer' = buf
        /\ lines' = r.rest
        /\ out' = IF r.ev.yields THEN Append(out, r.ev.chunk) ELSE out
        /\ spc' = IF r.ev.yields /\ r.ev.ends THEN "yieldedLast" ELSE "reading"

\* the generator runs on from the for loop over ls (with buf what follows the
\* last newline) to its next yield or to the next reader.read()
Resume(ls, buf) ==
    LET r == RunLoop(sprov, ls)
    IN  /\ buffer' = buf
        /\ IF ~r.ev.yields
           THEN /\ lines' = <<>>
                /\ spc' = "reading"
                /\ out' = out
           ELSE /\ lines' = r.rest
                /\ out' = Append(out, r.ev.chunk)
                /\ spc' = IF r.ev.ends THEN "yieldedLast" ELSE "yielded"

\* the endpoint writes one more line, newline-terminated or cut off by the
\* end of the body.  Text that arrives while the generator is suspended at a
\* yield waits for the next reader.read(), so it is written here when the
\* generator has come to that read.
ServerWrite ==
    /\ spc = "reading"
    /\ ~closed
    /\ NumLines(body) < MaxLines
    /\ \/ \E line \in WireLines(sprov) :
             /\ body' = body \o line \o <<NL>>
             /\ closed' = FALSE
       \/ \E line \in CutOffLines(sprov) :
             /\ body' = body \o line
             /\ closed' = TRUE
    /\ UNCHANGED <<sprov, pos, buffer, lines, spc, out, pulls>>
    /\ UNCHANGED routerVars
    /\ UNCHANGED otherVars

\* the consumer calls next() on the generator
Pull ==
    /\ \/ /\ spc = "created"
          /\ \E status \in HttpStatus, hasBody \in BOOLEAN :
                /\ call' = ProviderStreamOpen(sprov, Undef, status, hasBody)
                /\ spc' = IF call'.st = "open" THEN "reading" ELSE "failed"
          /\ UNCHANGED <<buffer, lines, out>>
       \/ /\ spc = "yielded"
          /\ Resume(lines, buffer)
          /\ UNCHANGED call
       \/ /\ spc = "yieldedLast"
          /\ spc' = "returned"
          /\ UNCHANGED <<buffer, lines, out, call>>
    /\ pulls' = pulls + 1
    /\ UNCHANGED <<sprov, body, closed, pos>>
    /\ UNCHANGED <<providers, config, ops>>
    /\ UNCHANGED otherVars

\* faulty variant: lines.pop() is missing, the text after the last newline is
\* processed as a line
Read_NoPop ==
    /\ spc = "reading"
    /\ \/ /\ pos < Len(body)
          /\ \E k \in (pos + 1)..Len(body) :
                LET parts == Split(buffer \o SubSeq(body, pos + 1, k))
                IN  /\ pos' = k
                    /\ Resume(parts, <<>>)
          /\ UNCHANGED closed
       \/ /\ pos = Len(body)
          /\ closed' = TRUE
          /\ out' = Append(out, Terminal)
          /\ spc' = "yieldedLast"
          /\ UNCHANGED <<pos, buffer, lines>>
    /\ UNCHANGED <<sprov, body, pulls>>
    /\ UNCHANGED routerVars
    /\ UNCHANGED otherVars

\* faulty variant: at the end of the body the text left in buffer is processed
\* as a last line
Read_FlushesBuffer ==
    /\ spc = "reading"
    /\ \/ /\ pos < Len(body)
          /\ \E k \in (pos + 1)..Len(body) :
                LET parts == Split(buffer \o SubSeq(body, pos + 1, k))
                IN  /\ pos' = k
                    /\ Resume(SubSeq(parts, 1, Len(parts) - 1), parts[Len(parts)])
          /\ UNCHANGED closed
       \/ /\ pos = Len(body)
          /\ closed' = TRUE
          /\ out' = LET ev == LineEvent(sprov, buffer)
                    IN  IF ev.yields /\ ~ev.ends
                        THEN out \o <<ev.chunk, Terminal>>
                        ELSE Append(out, Terminal)
          /\ spc' = "yieldedLast"
          /\ UNCHANGED <<pos, buffer, lines>>
    /\ UNCHANGED <<sprov, body, pulls>>
    /\ UNCHANGED routerVars
    /\ UNCHANGED otherVars

\* `await reader.read()` resolves: with some of the text not yet delivered,
\* or, all of it delivered and the endpoint having ended the body (now, if
\* not before), with done: the loop breaks and the terminal chunk is yielded
Read ==
    /\ spc = "reading"
    /\ \/ /\ pos < Len(body)
          /\ \E k \in (pos + 1)..Len(body) :
                LET parts == Split(buffer \o SubSeq(body, pos + 1, k))
                IN  /\ pos' = k
                    /\ Resume(SubSeq(parts, 1, Len(parts) - 1), parts[Len(parts)])
          /\ UNCHANGED closed
       \/ /\ pos = Len(body)
          /\ closed' = TRUE
          /\ out' = Append(out, Terminal)
          /\ spc' = "yieldedLast"
          /\ UNCHANGED <<pos, buffer, lines>>
    /\ UNCHANGED <<sprov, body, pulls>>
    /\ UNCHANGED routerVars
    /\ UNCHANGED otherVars

StreamNext ==
    \/ ServerWrite
    \/ Pull
    \/ Read

StreamSpec == StreamInit /\ [][StreamNext]_vars

-----------------------------------------------------------------------------
(* ProviderSpec: one exchange at a time, on a provider instance directly   *)
(* or through a router built from the environment                          *)

ProviderInit ==
    /\ \E env \in [claude : EnvKey, openai : EnvKey, qwen : EnvKey] :
          providers = InitializeProviders(env)
    /\ config = DEFAULT_ROUTING_CONFIG
    /\ call = NoCall
    /\ ops = 0
    /\ StreamIdle
    /\ xch = NoExchange
    /\ ConfigIdle
    /\ SingletonIdle
    /\ ObjectIdle
    /\ RecorderIdle
    /\ StoreIdle

\* p.chat(messages, options)
ProviderChatCall ==
    /\ xch = NoExchange
    /\ \E p \in ProviderInstances, messages \in MessageLists, options \in OptionValues :
          \E reply \in ChatReplies(p) :
             xch' = [NoExchange EXCEPT
                     !.via = "provider", !.op = "chat", !.task = Undef,
                     !.messages = messages, !.options = options, !.reply = reply,
                     !.served = p,
                     !.result = ChatOf(p, messages, options, reply)]
    /\ UNCHANGED routerVars
    /\ UNCHANGED streamVars
    /\ UNCHANGED configVars
    /\ UNCHANGED singletonVars
    /\ UNCHANGED objectVars
    /\ UNCHANGED recorderVars
    /\ UNCHANGED storeVars

\* the first pull of p.stream(messages, options)
ProviderStreamCall ==
    /\ xch = NoExchange
    /\ \E p \in ProviderInstances, messages \in MessageLists, options \in OptionValues,
          reply \in StreamReplies :
             xch' = [NoExchange EXCEPT
                     !.via = "provider", !.op = "stream", !.task = Undef,
                     !.messages = messages, !.options = options, !.reply = reply,
                     !.served = p,
                     !.result = StreamOpenOf(p, messages, options, reply)]
    /\ UNCHANGED routerVars
    /\ UNCHANGED streamVars
    /\ UNCHANGED configVars
    /\ UNCHANGED singletonVars
    /\ UNCHANGED objectVars
    /\ UNCHANGED recorderVars
    /\ UNCHANGED storeVars

\* router.chat(messages, {...options, taskType})
RouterChatCall ==
    /\ xch = NoExchange
    /\ \E task \in TaskArg, messages \in MessageLists, options \in OptionValues :
          LET provider == GetProviderForTask(config, providers, task)
          IN  \E reply \in ChatReplies(provider) :
                 xch' = [NoExchange EXCEPT
                         !.via = "router", !.op = "chat", !.task = task,
                         !.messages = messages, !.options = options, !.reply = reply,
                         !.served = provider,
                         !.result = RouterChatExchange(config, providers, messages,
                                                      options, task, reply)]
    /\ UNCHANGED routerVars
    /\ UNCHANGED streamVars
    /\ UNCHANGED configVars
    /\ UNCHANGED singletonVars
    /\ UNCHANGED objectVars
    /\ UNCHANGED recorderVars
    /\ UNCHANGED storeVars

\* the first pull of router.stream(messages, {...options, taskType})
RouterStreamCall ==
    /\ xch = NoExchange
    /\ \E task \in TaskArg, messages \in MessageLists, options \in OptionValues,
          reply \in StreamReplies :
             xch' = [NoExchange EXCEPT
                     !.via = "router", !.op = "stream", !.task = task,
                     !.messages = messages, !.options = options, !.reply = reply,
                     !.served = GetProviderForTask(config, providers, task),
                     !.result = RouterStreamExchange(config, providers, messages,
                                                    options, task, reply)]
    /\ UNCHANGED routerVars
    /\ UNCHANGED streamVars
    /\ UNCHANGED configVars
    /\ UNCHANGED singletonVars
    /\ UNCHANGED objectVars
    /\ UNCHANGED recorderVars
    /\ UNCHANGED storeVars

\* the chunks a provider's generator may yield: content deltas, an empty
\* delta, the terminal chunk
ProviderChunks == {Chunk("a", FALSE), Chunk("b", FALSE), Chunk("", FALSE), Terminal}

\* faulty variant: the router's loop leaves out the terminal chunk
Forward_DropsTerminal(chunk) == IF chunk.done THEN <<>> ELSE <<chunk>>

\* `yield* provider.stream(...)`: what router.stream yields for one chunk of
\* the provider's generator
Forward(chunk) == <<chunk>>

\* a later pull of router.stream: the pull goes to the provider's generator,
\* which yields its next chunk
RouterStreamPull ==
    /\ xch.via = "router"
    /\ xch.op = "stream"
    /\ xch.result.st = "open"
    /\ IF xch.produced = <<>> THEN TRUE ELSE ~xch.produced[Len(xch.produced)].done
    /\ \E chunk \in ProviderChunks :
          /\ ~chunk.done => Len(xch.produced) < MaxForwarded
          /\ xch' = [xch EXCEPT !.produced = Append(xch.produced, chunk),
                                !.forwarded = xch.forwarded \o Forward(chunk)]
    /\ UNCHANGED routerVars
    /\ UNCHANGED streamVars
    /\ UNCHANGED configVars
    /\ UNCHANGED singletonVars
    /\ UNCHANGED objectVars
    /\ UNCHANGED recorderVars
    /\ UNCHANGED storeVars

\* a later pull of p.stream(...) made on the instance directly
ProviderStreamPull ==
    /\ xch.via = "provider"
    /\ xch.op = "stream"
    /\ xch.result.st = "open"
    /\ IF xch.produced = <<>> THEN TRUE ELSE ~xch.produced[Len(xch.produced)].done
    /\ \E chunk \in ProviderChunks :
          /\ ~chunk.done => Len(xch.produced) < MaxForwarded
          /\ xch' = [xch EXCEPT !.produced = Append(xch.produced, chunk)]
    /\ UNCHANGED routerVars
    /\ UNCHANGED streamVars
    /\ UNCHANGED configVars
    /\ UNCHANGED singletonVars
    /\ UNCHANGED objectVars
    /\ UNCHANGED recorderVars
    /\ UNCHANGED storeVars

\* the caller has taken the outcome
ExchangeDone ==
    /\ xch # NoExchange
    /\ xch' = NoExchange
    /\ UNCHANGED routerVars
    /\ UNCHANGED streamVars
    /\ UNCHANGED configVars
    /\ UNCHANGED singletonVars
    /\ UNCHANGED objectVars
    /\ UNCHANGED recorderVars
    /\ UNCHANGED storeVars

ProviderNext ==
    \/ ProviderChatCall
    \/ ProviderStreamCall
    \/ RouterChatCall
    \/ RouterStreamCall
    \/ RouterStreamPull
    \/ ProviderStreamPull
    \/ ExchangeDone

ProviderSpec == ProviderInit /\ [][ProviderNext]_vars

-----------------------------------------------------------------------------
(* ConfigSpec: the routing config under updateConfig, getConfig and a      *)
(* caller that writes into what getConfig gave it                          *)

\* configs handed to the constructor here: none, or a default and one task
ConfigOverrides ==
    { NoOverride,
      [default |-> "openai", tasks |-> [NoTasks EXCEPT !["translation"] = "gemini"]] }

\* credentials at construction here: all three set, or Claude's alone
ConfigEnvs ==
    { [claude |-> "sk", openai |-> "sk", qwen |-> "sk"],
      [claude |-> "sk", openai |-> "", qwen |-> ""] }

\* getConfig(): { ...this.config }, a new object whose default is a copy and
\* whose tasks is the tasks object of the router itself
GetConfigResult(cfg) ==
    [held |-> TRUE, default |-> cfg.default, shared |-> TRUE, tasks |-> NoTasks]

\* what the holder of the object reads in its tasks
CopyTasks == IF copy.shared THEN config.tasks ELSE copy.tasks

\* the keys an updateConfig argument names, with the latest value given for
\* each
Noted(named, partial) ==
    [default |-> IF partial.default # Absent THEN partial.default ELSE named.default,
     tasks |-> [t \in TaskType |->
        IF partial.tasks[t] # Absent THEN partial.tasks[t] ELSE named.tasks[t]]]

ConfigInit ==
    /\ \E e \in ConfigEnvs, override \in ConfigOverrides :
          /\ providers = InitializeProviders(e)
          /\ config = MergeConfig(DEFAULT_ROUTING_CONFIG, override)
          /\ hist = [NoHist EXCEPT !.initial = MergeConfig(DEFAULT_ROUTING_CONFIG, override)]
    /\ copy = NoCopy
    /\ call = NoCall
    /\ ops = 0
    /\ sprov = NoProvider
    /\ body = <<>>
    /\ closed = FALSE
    /\ pos = 0
    /\ buffer = <<>>
    /\ lines = <<>>
    /\ spc = "idle"
    /\ out = <<>>
    /\ pulls = 0
    /\ xch = Untracked
    /\ SingletonIdle
    /\ ObjectIdle
    /\ RecorderIdle
    /\ StoreIdle

\* router.updateConfig(partial): this.config becomes a new object with a new
\* tasks object; an object handed out by getConfig() keeps the old one
CfgUpdateConfig ==
    /\ ops < MaxOps
    /\ \E partial \in PartialConfig :
          /\ config' = MergeConfig(config, partial)
          /\ hist' = [hist EXCEPT !.arg = partial, !.named = Noted(hist.named, partial)]
    /\ copy' = IF copy.shared
               THEN [copy EXCEPT !.shared = FALSE, !.tasks = config.tasks]
               ELSE copy
    /\ ops' = ops + 1
    /\ UNCHANGED <<providers, call>>
    /\ UNCHANGED streamVars
    /\ UNCHANGED xch
    /\ UNCHANGED singletonVars
    /\ UNCHANGED objectVars
    /\ UNCHANGED recorderVars
    /\ UNCHANGED storeVars

\* const c = router.getConfig()
CfgGetConfig ==
    /\ copy' = GetConfigResult(config)
    /\ copy' # copy
    /\ UNCHANGED <<hist>>
    /\ UNCHANGED routerVars
    /\ UNCHANGED streamVars
    /\ UNCHANGED xch
    /\ UNCHANGED singletonVars
    /\ UNCHANGED objectVars
    /\ UNCHANGED recorderVars
    /\ UNCHANGED storeVars

\* the values a caller writes into the object: c.default = 'gemini' or
\* c.tasks.grammar_correction = 'openai' / 'gemini'
WrittenDefault == {"gemini"}
WrittenTask == {"grammar_correction"}
WrittenName == {"openai", "gemini"}

\* c.default = n, or c.tasks[t] = n
CfgCallerWrite ==
    /\ copy.held
    /\ hist.writes < MaxWrites
    /\ \/ \E n \in WrittenDefault :
             /\ copy' = [copy EXCEPT !.default = n]
             /\ UNCHANGED config
       \/ \E t \in WrittenTask, n \in WrittenName :
             IF copy.shared
             THEN /\ config' = [config EXCEPT !.tasks[t] = n]
                  /\ UNCHANGED copy
             ELSE /\ copy' = [copy EXCEPT !.tasks[t] = n]
                  /\ UNCHANGED config
    /\ hist' = [hist EXCEPT !.writes = hist.writes + 1]
    /\ UNCHANGED <<providers, call, ops>>
    /\ UNCHANGED streamVars
    /\ UNCHANGED xch
    /\ UNCHANGED singletonVars
    /\ UNCHANGED objectVars
    /\ UNCHANGED recorderVars
    /\ UNCHANGED storeVars

ConfigNext ==
    \/ CfgUpdateConfig
    \/ CfgGetConfig
    \/ CfgCallerWrite

ConfigSpec == ConfigInit /\ [][ConfigNext]_vars

-----------------------------------------------------------------------------
(* SingletonSpec: getLLMRouter / resetLLMRouter and the module-level slot  *)

\* new LLMRouter(config) with the credentials e in the environment
NewLLMRouter(cfgArg, e) ==
    [providers |-> InitializeProviders(e),
     config |-> MergeConfig(DEFAULT_ROUTING_CONFIG, cfgArg)]

\* faulty variant: the argument is applied to the router already in the slot
GetLLMRouter_AppliesConfig(slot, rs, cfgArg, e) ==
    IF slot = 0
    THEN [routerInstance |-> Len(rs) + 1, routers |-> Append(rs, NewLLMRouter(cfgArg, e))]
    ELSE [routerInstance |-> slot,
          routers |-> [rs EXCEPT ![slot].config = MergeConfig(rs[slot].config, cfgArg)]]

\* faulty variant: the slot is not looked at, every call constructs a router
GetLLMRouter_AlwaysConstructs(slot, rs, cfgArg, e) ==
    [routerInstance |-> Len(rs) + 1, routers |-> Append(rs, NewLLMRouter(cfgArg, e))]

\* getLLMRouter(config): the slot and the routers in existence afterwards;
\* the router returned is the one in the slot.  A router is told from the
\* others by its place in rs.
GetLLMRouter(slot, rs, cfgArg, e) ==
    IF slot = 0
    THEN [routerInstance |-> Len(rs) + 1, routers |-> Append(rs, NewLLMRouter(cfgArg, e))]
    ELSE [routerInstance |-> slot, routers |-> rs]

\* the credentials the environment may hold: those of ConfigEnvs, none, or
\* all but Claude's
SingletonEnvs ==
    ConfigEnvs \cup {NoEnv, [claude |-> "", openai |-> "sk", qwen |-> "sk"]}

\* what holders of a router do to it between calls here
SlotPartials == { [default |-> "gemini", tasks |-> NoTasks] }
SlotProviders == { NewProvider("gemini", "sk", 1) }

SingletonInit ==
    /\ processEnv \in SingletonEnvs
    /\ routerInstance = 0
    /\ routers = <<>>
    /\ got = 0
    /\ providers = <<>>
    /\ config = DEFAULT_ROUTING_CONFIG
    /\ call = NoCall
    /\ ops = 0
    /\ sprov = NoProvider
    /\ body = <<>>
    /\ closed = FALSE
    /\ pos = 0
    /\ buffer = <<>>
    /\ lines = <<>>
    /\ spc = "idle"
    /\ out = <<>>
    /\ pulls = 0
    /\ xch = Untracked
    /\ ConfigIdle
    /\ ObjectIdle
    /\ RecorderIdle
    /\ StoreIdle

\* getLLMRouter(cfgArg); hist notes the argument of the latest call
GetLLMRouterCall ==
    /\ \E cfgArg \in ConfigOverrides :
          LET after == GetLLMRouter(routerInstance, routers, cfgArg, processEnv)
          IN  /\ Len(after.routers) <= MaxRouters
              /\ routerInstance' = after.routerInstance
              /\ routers' = after.routers
              /\ got' = after.routerInstance
              /\ hist' = Some(cfgArg)
    /\ UNCHANGED processEnv
    /\ UNCHANGED routerVars
    /\ UNCHANGED streamVars
    /\ UNCHANGED xch
    /\ UNCHANGED copy
    /\ UNCHANGED objectVars
    /\ UNCHANGED recorderVars
    /\ UNCHANGED storeVars

\* resetLLMRouter()
ResetLLMRouter ==
    /\ routerInstance' = 0
    /\ UNCHANGED <<processEnv, routers, got>>
    /\ UNCHANGED routerVars
    /\ UNCHANGED streamVars
    /\ UNCHANGED xch
    /\ UNCHANGED configVars
    /\ UNCHANGED objectVars
    /\ UNCHANGED recorderVars
    /\ UNCHANGED storeVars

\* the credentials in the environment change
EnvChange ==
    /\ processEnv' \in SingletonEnvs
    /\ UNCHANGED <<routerInstance, routers, got>>
    /\ UNCHANGED routerVars
    /\ UNCHANGED streamVars
    /\ UNCHANGED xch
    /\ UNCHANGED configVars
    /\ UNCHANGED objectVars
    /\ UNCHANGED recorderVars
    /\ UNCHANGED storeVars

\* a holder of a router, in the slot or not, calls updateConfig or
\* addProvider on it
HolderUpdate ==
    /\ \E i \in 1..Len(routers) :
          \/ \E partial \in SlotPartials :
                routers' = [routers EXCEPT ![i].config = MergeConfig(routers[i].config, partial)]
          \/ \E p \in SlotProviders :
                routers' = [routers EXCEPT ![i].providers = MapSet(routers[i].providers, p)]
    /\ UNCHANGED <<processEnv, routerInstance, got>>
    /\ UNCHANGED routerVars
    /\ UNCHANGED streamVars
    /\ UNCHANGED xch
    /\ UNCHANGED configVars
    /\ UNCHANGED objectVars
    /\ UNCHANGED recorderVars
    /\ UNCHANGED storeVars

SingletonNext ==
    \/ GetLLMRouterCall
    \/ ResetLLMRouter
    \/ EnvChange
    \/ HolderUpdate

SingletonSpec == SingletonInit /\ [][SingletonNext]_vars

-----------------------------------------------------------------------------
(* ObjectSpec: the config objects as JavaScript keeps them.  An object is  *)
(* known by its address, its place in the heap; a property whose value is  *)
(* an object holds the address; an object spread makes a new object.       *)

\* after the module is loaded: DEFAULT_ROUTING_CONFIG at address 1, the
\* object that is its tasks at address 2
InitialHeap ==
    << [default |-> DEFAULT_ROUTING_CONFIG.default, tasks |-> 2],
       DEFAULT_ROUTING_CONFIG.tasks >>

\* what is read from the config object at address a and from its tasks
ConfigAt(h, a) == [default |-> h[a].default, tasks |-> h[h[a].tasks]]

\* faulty variant: Object.assign into the object at a and into its tasks
SpreadConfig_InPlace(h, a, partial) ==
    LET merged == MergeConfig(ConfigAt(h, a), partial)
    IN  [heap |-> [h EXCEPT ![a].default = merged.default,
                            ![h[a].tasks] = merged.tasks],
         at |-> a]

\* { ...X, ...partial, tasks: { ...X.tasks, ...partial?.tasks } } with X the
\* object at a: a new tasks object and a new config object that holds it
SpreadConfig(h, a, partial) ==
    LET merged == MergeConfig(ConfigAt(h, a), partial)
        withTasks == Append(h, merged.tasks)
        withConfig == Append(withTasks,
                             [default |-> merged.default, tasks |-> Len(withTasks)])
    IN  [heap |-> withConfig, at |-> Len(withConfig)]

\* getConfig(): { ...this.config } with this.config at a: a new config
\* object that holds the same tasks object
ShallowCopy(h, a) ==
    LET withCopy == Append(h, [default |-> h[a].default, tasks |-> h[a].tasks])
    IN  [heap |-> withCopy, at |-> Len(withCopy)]

\* the arguments of updateConfig here: a task, or a default and a task
ObjectPartials ==
    { [default |-> Absent, tasks |-> [NoTasks EXCEPT !["grammar_correction"] = "openai"]],
      [default |-> "openai", tasks |-> [NoTasks EXCEPT !["conversation"] = "openai"]] }

\* held[i] is the address in this.config of the i-th router constructed
ObjectInit ==
    /\ mem = [heap |-> InitialHeap, held |-> <<>>, op |-> "load", who |-> 0,
              arg |-> NoOverride, updates |-> 0, writes |-> 0]
    /\ providers = <<>>
    /\ config = DEFAULT_ROUTING_CONFIG
    /\ call = NoCall
    /\ ops = 0
    /\ StreamIdle
    /\ xch = Untracked
    /\ ConfigIdle
    /\ SingletonIdle
    /\ RecorderIdle
    /\ StoreIdle

\* new LLMRouter(cfgArg)
ObjConstruct ==
    /\ Len(mem.held) < MaxRouters
    /\ \E cfgArg \in ConfigOverrides :
          LET made == SpreadConfig(mem.heap, 1, cfgArg)
          IN  mem' = [mem EXCEPT !.heap = made.heap, !.held = Append(@, made.at),
                                 !.op = "construct", !.who = Len(mem.held) + 1,
                                 !.arg = cfgArg]
    /\ UNCHANGED routerVars
    /\ UNCHANGED streamVars
    /\ UNCHANGED xch
    /\ UNCHANGED configVars
    /\ UNCHANGED singletonVars
    /\ UNCHANGED recorderVars
    /\ UNCHANGED storeVars

\* the i-th router's updateConfig(partial)
ObjUpdateConfig ==
    /\ mem.updates < MaxOps
    /\ \E i \in 1..Len(mem.held), partial \in ObjectPartials :
          LET made == SpreadConfig(mem.heap, mem.held[i], partial)
          IN  mem' = [mem EXCEPT !.heap = made.heap, !.held[i] = made.at,
                                 !.op = "updateConfig", !.who = i, !.arg = partial,
                                 !.updates = @ + 1]
    /\ UNCHANGED routerVars
    /\ UNCHANGED streamVars
    /\ UNCHANGED xch
    /\ UNCHANGED configVars
    /\ UNCHANGED singletonVars
    /\ UNCHANGED recorderVars
    /\ UNCHANGED storeVars

\* a caller of the i-th router: const c = router.getConfig(); c.tasks[t] = n
ObjCallerWrite ==
    /\ mem.writes < MaxWrites
    /\ \E i \in 1..Len(mem.held), t \in WrittenTask, n \in WrittenDefault :
          LET c == ShallowCopy(mem.heap, mem.held[i])
          IN  mem' = [mem EXCEPT !.heap = [c.heap EXCEPT ![c.heap[c.at].tasks][t] = n],
                                 !.op = "write", !.who = i, !.arg = NoOverride,
                                 !.writes = @ + 1]
    /\ UNCHANGED routerVars
    /\ UNCHANGED streamVars
    /\ UNCHANGED xch
    /\ UNCHANGED configVars
    /\ UNCHANGED singletonVars
    /\ UNCHANGED recorderVars
    /\ UNCHANGED storeVars

ObjectNext ==
    \/ ObjConstruct
    \/ ObjUpdateConfig
    \/ ObjCallerWrite

ObjectSpec == ObjectInit /\ [][ObjectNext]_vars

-----------------------------------------------------------------------------
(* RecorderSpec: one AudioRecorder (services/speech/recorder.ts), its      *)
(* operations called one after the other, and what expo-av answers         *)

\* new AudioRecorder(): recording is 0 for null and else the number of the
\* Audio.Recording held; mode is what setAudioModeAsync was last given
\* (allowsRecordingIOS true: recording, false: idle); live are the recordings
\* created and not unloaded; op, threw and returned tell the latest call and
\* how it ended
NewAudioRecorder ==
    [recording |-> 0, isRecording |-> FALSE, permissionGranted |-> FALSE,
     mode |-> "unset", made |-> 0, live |-> {}, op |-> "new", threw |-> None,
     returned |-> None]

\* a call has ended: by an error with message threw, or with a value
Ended(r, op, threw, returned) ==
    [r EXCEPT !.op = op, !.threw = threw, !.returned = returned]

\* what Audio.requestPermissionsAsync / getPermissionsAsync come to
PermissionAnswers == {"granted", "denied", "rejects"}

\* the fields after requestPermissions(), answer being what expo-av says: a
\* rejection is caught and leaves permissionGranted as it was
AfterRequest(r, answer) ==
    IF answer = "rejects" THEN r
    ELSE [r EXCEPT !.permissionGranted = (answer = "granted")]

\* requestPermissions()
RequestPermissions(r, answer) ==
    LET after == AfterRequest(r, answer)
    IN  Ended(after, "requestPermissions", None,
              Some(IF answer = "rejects" THEN FALSE ELSE after.permissionGranted))

\* hasPermissions(): a rejection of getPermissionsAsync is not caught
HasPermissions(r, answer) ==
    IF answer = "rejects" THEN Ended(r, "hasPermissions", Some("native"), None)
    ELSE Ended([r EXCEPT !.permissionGranted = (answer = "granted")],
               "hasPermissions", None, Some(answer = "granted"))

\* what expo-av does during startRecording(): the answer to a permission
\* request, should one be made, and whether setAudioModeAsync and
\* Recording.createAsync succeed
StartAnswers == [permission : PermissionAnswers, setMode : BOOLEAN, create : BOOLEAN]

\* startRecording()
StartRecording(r, e) ==
    LET asked == IF r.permissionGranted THEN r ELSE AfterRequest(r, e.permission)
        granted == r.permissionGranted \/ e.permission = "granted"
    IN  IF ~granted
        THEN Ended(asked, "startRecording", Some("Microphone permission not granted"), None)
        ELSE IF ~e.setMode
        THEN Ended(asked, "startRecording", Some("native"), None)
        ELSE IF ~e.create
        THEN Ended([asked EXCEPT !.mode = "recording"], "startRecording",
                   Some("native"), None)
        ELSE Ended([asked EXCEPT !.mode = "recording", !.recording = r.made + 1,
                                 !.made = r.made + 1, !.isRecording = TRUE,
                                 !.live = r.live \cup {r.made + 1}],
                   "startRecording", None, None)

\* what expo-av does during stopRecording(): whether stopAndUnloadAsync and
\* setAudioModeAsync succeed, whether getURI() gives a URI, and
\* getStatusAsync: it fails, or gives a status with or without durationMillis
StopAnswers ==
    [unload : BOOLEAN, setMode : BOOLEAN, uri : BOOLEAN,
     status : {"fails", "noDuration", "5000"}]

\* this.recording = null; this.isRecording = false
Cleared(r) == [r EXCEPT !.recording = 0, !.isRecording = FALSE]

\* this.recording.stopAndUnloadAsync() has succeeded
Unloaded(r) == [r EXCEPT !.live = r.live \ {r.recording}]

\* faulty variant: no check at the top, stopAndUnloadAsync is called on null
StopRecording_NoGuard(r, e) ==
    IF r.recording = 0
    THEN Ended(Cleared(r), "stopRecording",
               Some("Cannot read properties of null (reading 'stopAndUnloadAsync')"), None)
    ELSE IF ~e.unload \/ ~e.setMode
    THEN Ended(Cleared(r), "stopRecording", Some("native"), None)
    ELSE Ended(Cleared([r EXCEPT !.mode = "idle"]), "stopRecording", None,
               Some([uri |-> "file", duration |-> 0]))

\* faulty variant: the catch block rethrows without the clean-up
StopRecording_KeepsOnFailure(r, e) ==
    IF r.recording = 0 \/ ~r.isRecording
    THEN Ended(r, "stopRecording", Some("No active recording"), None)
    ELSE IF ~e.unload \/ ~e.setMode \/ ~e.uri \/ e.status = "fails"
    THEN Ended(r, "stopRecording", Some("native"), None)
    ELSE Ended(Cleared([r EXCEPT !.mode = "idle"]), "stopRecording", None,
               Some([uri |-> "file", duration |-> 0]))

\* stopRecording()
StopRecording(r, e) ==
    IF r.recording = 0 \/ ~r.isRecording
    THEN Ended(r, "stopRecording", Some("No active recording"), None)
    ELSE IF ~e.unload
    THEN Ended(Cleared(r), "stopRecording", Some("native"), None)
    ELSE IF ~e.setMode
    THEN Ended(Cleared(Unloaded(r)), "stopRecording", Some("native"), None)
    ELSE IF e.status = "fails"
    THEN Ended(Cleared(Unloaded([r EXCEPT !.mode = "idle"])), "stopRecording",
               Some("native"), None)
    ELSE IF ~e.uri
    THEN Ended(Cleared(Unloaded([r EXCEPT !.mode = "idle"])), "stopRecording",
               Some("Recording URI not available"), None)
    ELSE Ended(Cleared(Unloaded([r EXCEPT !.mode = "idle"])), "stopRecording", None,
               Some([uri |-> "file",
                     duration |-> IF e.status = "5000" THEN 5000 ELSE 0]))

\* what expo-av does during cancelRecording()
CancelAnswers == [unload : BOOLEAN, setMode : BOOLEAN]

\* cancelRecording(): errors are caught, the clean-up is in `finally`
CancelRecording(r, e) ==
    IF r.recording = 0
    THEN Ended(r, "cancelRecording", None, None)
    ELSE IF ~e.unload
    THEN Ended(Cleared(r), "cancelRecording", None, None)
    ELSE IF ~e.setMode
    THEN Ended(Cleared(Unloaded(r)), "cancelRecording", None, None)
    ELSE Ended(Cleared(Unloaded([r EXCEPT !.mode = "idle"])), "cancelRecording", None, None)

\* getIsRecording()
GetIsRecording(r) == r.isRecording

RecorderInit ==
    /\ rec = NewAudioRecorder
    /\ providers = <<>>
    /\ config = DEFAULT_ROUTING_CONFIG
    /\ call = NoCall
    /\ ops = 0
    /\ StreamIdle
    /\ xch = Untracked
    /\ ConfigIdle
    /\ SingletonIdle
    /\ ObjectIdle
    /\ StoreIdle

RecRequestPermissions ==
    /\ \E answer \in PermissionAnswers : rec' = RequestPermissions(rec, answer)
    /\ UNCHANGED routerVars
    /\ UNCHANGED streamVars
    /\ UNCHANGED xch
    /\ UNCHANGED configVars
    /\ UNCHANGED singletonVars
    /\ UNCHANGED objectVars
    /\ UNCHANGED storeVars

RecHasPermissions ==
    /\ \E answer \in PermissionAnswers : rec' = HasPermissions(rec, answer)
    /\ UNCHANGED routerVars
    /\ UNCHANGED streamVars
    /\ UNCHANGED xch
    /\ UNCHANGED configVars
    /\ UNCHANGED singletonVars
    /\ UNCHANGED objectVars
    /\ UNCHANGED storeVars

RecStartRecording ==
    /\ rec.made < MaxRecordings
    /\ \E e \in StartAnswers : rec' = StartRecording(rec, e)
    /\ UNCHANGED routerVars
    /\ UNCHANGED streamVars
    /\ UNCHANGED xch
    /\ UNCHANGED configVars
    /\ UNCHANGED singletonVars
    /\ UNCHANGED objectVars
    /\ UNCHANGED storeVars

RecStopRecording ==
    /\ \E e \in StopAnswers : rec' = StopRecording(rec, e)
    /\ UNCHANGED routerVars
    /\ UNCHANGED streamVars
    /\ UNCHANGED xch
    /\ UNCHANGED configVars
    /\ UNCHANGED singletonVars
    /\ UNCHANGED objectVars
    /\ UNCHANGED storeVars

RecCancelRecording ==
    /\ \E e \in CancelAnswers : rec' = CancelRecording(rec, e)
    /\ UNCHANGED routerVars
    /\ UNCHANGED streamVars
    /\ UNCHANGED xch
    /\ UNCHANGED configVars
    /\ UNCHANGED singletonVars
    /\ UNCHANGED objectVars
    /\ UNCHANGED storeVars

RecorderNext ==
    \/ RecRequestPermissions
    \/ RecHasPermissions
    \/ RecStartRecording
    \/ RecStopRecording
    \/ RecCancelRecording

RecorderSpec == RecorderInit /\ [][RecorderNext]_vars

-----------------------------------------------------------------------------
(* StoreSpec: the app store (store/index.ts), the TeacherAgent objects it  *)
(* creates and the teacher.sendMessage calls under way.  A request is      *)
(* under way from the synchronous part of sendMessage, up to its first     *)
(* await, until router.chat settles; the rest of teacher.sendMessage and   *)
(* of the store's sendMessage then run without another handler in between. *)

\* the languages chosen here, of SupportedLanguage
Languages == {"japanese", "mandarin"}

\* getGreetingPrompt(context), one text per language
Greeting(language) ==
    CASE language = "japanese" -> "greeting-ja"
      [] language = "mandarin" -> "greeting-zh"

\* the text of the k-th message the user sends, and of the answer to it
UserText(k) == <<"u1", "u2", "u3">>[k]
ReplyText(k) == <<"r1", "r2", "r3">>[k]

\* new TeacherAgent({language, ...}): conversationHistory = []
NewTeacherAgent(language) == [language |-> language, conversationHistory |-> <<>>]

\* the store as create() leaves it, or as rehydrated: activeLanguage is
\* persisted, teacher and messages are not.  teachers are the TeacherAgent
\* objects made so far, pending the requests under way, sends the number of
\* sendMessage calls; troubled notes the teachers that had a request fail,
\* two requests under way at once, or their history cleared with a request
\* under way.
NewStore(language) ==
    [activeLanguage |-> language, teacher |-> 0, teachers |-> <<>>,
     messages |-> <<>>, isLoading |-> FALSE, pending |-> {}, sends |-> 0,
     troubled |-> {}]

\* the store after a step from `before` to `after`, with troubled brought up
\* to date
Watch(before, after) ==
    LET under(s, i) == {r \in s.pending : r.teacher = i}
        failed == {r.teacher : r \in {q \in before.pending \ after.pending :
                                         after.teachers[q.teacher]
                                             = before.teachers[q.teacher]}}
        overlapped == {i \in 1..Len(after.teachers) : Cardinality(under(after, i)) > 1}
        cleared == {i \in 1..Len(before.teachers) :
                      /\ under(before, i) # {}
                      /\ before.teachers[i].conversationHistory # <<>>
                      /\ after.teachers[i].conversationHistory = <<>>}
    IN  [after EXCEPT !.troubled = before.troubled \cup failed \cup overlapped
                                      \cup cleared]

\* initializeTeacher(language): a new teacher, its greeting the only message
InitializeTeacher(s, language) ==
    [s EXCEPT !.teachers = Append(s.teachers, NewTeacherAgent(language)),
              !.teacher = Len(s.teachers) + 1,
              !.messages = <<Msg("assistant", Greeting(language))>>]

\* setActiveLanguage(lang)
SetActiveLanguage(s, lang) ==
    InitializeTeacher([s EXCEPT !.activeLanguage = lang], lang)

\* faulty variant: the user message is sent to the router without being added
\* to the history
TeacherSends_NoPush(t, text) ==
    [teacher |-> t,
     sent |-> <<Msg("system", "prompt")>> \o t.conversationHistory
                 \o <<Msg("user", text)>>]

\* teacher.sendMessage(text) up to `await this.router.chat(...)`: the history
\* afterwards and the messages handed to the router
TeacherSends(t, text) ==
    LET history == Append(t.conversationHistory, Msg("user", text))
    IN  [teacher |-> [t EXCEPT !.conversationHistory = history],
         sent |-> <<Msg("system", "prompt")>> \o history]

\* teacher.sendMessage after the await: the answer joins the history, or the
\* rejection of router.chat passes through and nothing else is done
TeacherSettles(t, r, ok) ==
    IF ok
    THEN [t EXCEPT !.conversationHistory = Append(@, Msg("assistant", ReplyText(r.id)))]
    ELSE t

\* faulty variant: the catch block does not reset isLoading
StoreSettles_StaysLoading(s, r, ok) ==
    LET settled == [s EXCEPT !.pending = s.pending \ {r},
                             !.teachers[r.teacher] = TeacherSettles(@, r, ok)]
    IN  IF ok
        THEN [settled EXCEPT !.messages = Append(@, Msg("assistant", ReplyText(r.id))),
                             !.isLoading = FALSE]
        ELSE settled

\* faulty variant: an answer is dropped when its teacher is no longer the
\* store's teacher
StoreSettles_ChecksTeacher(s, r, ok) ==
    LET settled == [s EXCEPT !.pending = s.pending \ {r},
                             !.teachers[r.teacher] = TeacherSettles(@, r, ok)]
    IN  IF ok /\ s.teacher = r.teacher
        THEN [settled EXCEPT !.messages = Append(@, Msg("assistant", ReplyText(r.id))),
                             !.isLoading = FALSE]
        ELSE [settled EXCEPT !.isLoading = FALSE]

\* the store's sendMessage from `await teacher.sendMessage(content)` on, for
\* the request r whose router call has settled
StoreSettles(s, r, ok) ==
    LET settled == [s EXCEPT !.pending = s.pending \ {r},
                             !.teachers[r.teacher] = TeacherSettles(@, r, ok)]
    IN  IF ok
        THEN [settled EXCEPT !.messages = Append(@, Msg("assistant", ReplyText(r.id))),
                             !.isLoading = FALSE]
        ELSE [settled EXCEPT !.isLoading = FALSE]

\* the store's sendMessage(content) up to its await; sends counts the calls
StoreSendMessage(s, text) ==
    IF s.teacher = 0 THEN [s EXCEPT !.sends = s.sends + 1]
    ELSE LET started == TeacherSends(s.teachers[s.teacher], text)
         IN  [s EXCEPT !.sends = s.sends + 1,
                       !.messages = Append(@, Msg("user", text)),
                       !.isLoading = TRUE,
                       !.teachers[s.teacher] = started.teacher,
                       !.pending = s.pending \cup
                                      {[id |-> s.sends + 1, teacher |-> s.teacher,
                                        sent |-> started.sent]}]

\* clearMessages()
ClearMessages(s) ==
    IF s.teacher # 0
    THEN [s EXCEPT !.teachers[s.teacher].conversationHistory = <<>>,
                   !.messages = <<Msg("assistant",
                                      Greeting(s.teachers[s.teacher].language))>>]
    ELSE [s EXCEPT !.messages = <<>>]

StoreInit ==
    /\ app \in {NewStore(l) : l \in Languages \cup {"null"}}
    /\ providers = <<>>
    /\ config = DEFAULT_ROUTING_CONFIG
    /\ call = NoCall
    /\ ops = 0
    /\ StreamIdle
    /\ xch = Untracked
    /\ ConfigIdle
    /\ SingletonIdle
    /\ ObjectIdle
    /\ RecorderIdle

StoreUnchanged ==
    /\ UNCHANGED routerVars
    /\ UNCHANGED streamVars
    /\ UNCHANGED xch
    /\ UNCHANGED configVars
    /\ UNCHANGED singletonVars
    /\ UNCHANGED objectVars
    /\ UNCHANGED recorderVars

AppSetActiveLanguage ==
    /\ Len(app.teachers) < MaxTeachers
    /\ \E lang \in Languages : app' = Watch(app, SetActiveLanguage(app, lang))
    /\ StoreUnchanged

AppSendMessage ==
    /\ app.sends < MaxSends
    /\ app' = Watch(app, StoreSendMessage(app, UserText(app.sends + 1)))
    /\ StoreUnchanged

\* router.chat settles for one of the requests under way
AppSettle ==
    /\ \E r \in app.pending, ok \in BOOLEAN : app' = Watch(app, StoreSettles(app, r, ok))
    /\ StoreUnchanged

AppClearMessages ==
    /\ app' = Watch(app, ClearMessages(app))
    /\ StoreUnchanged

StoreNext ==
    \/ AppSetActiveLanguage
    \/ AppSendMessage
    \/ AppSettle
    \/ AppClearMessages

StoreSpec == StoreInit /\ [][StoreNext]_vars

-----------------------------------------------------------------------------
(* Construction claims, checked under SingletonSpec *)

\* the step constructs a router: it is the last of routers afterwards
Constructs == Len(routers') = Len(routers) + 1

BuiltInKinds == {"claude", "openai", "qwen"}

\* C21: right after construction the registry holds exactly the built-in
\* kinds (claude, openai, qwen) whose credential in the environment is not
\* empty, in that order of registration, each of them configured and built
\* from that credential; so gemini is never among them; and while the slot
\* is empty getLLMRouter can construct, whatever the credentials are.
C21_RegistryAfterConstruction ==
    /\ [](routerInstance = 0 /\ Len(routers) < MaxRouters => ENABLED GetLLMRouterCall)
    /\ [][Constructs =>
            LET r == routers'[Len(routers')]
            IN  /\ \A n \in LLMProviderName :
                      HasProvider(r.providers, n)
                         <=> (n \in BuiltInKinds /\ processEnv[n] # "")
                /\ ~HasProvider(r.providers, "gemini")
                /\ \A i \in 1..Len(r.providers) :
                      /\ IsConfigured(r.providers[i])
                      /\ r.providers[i].apiKey = processEnv[r.providers[i].name]
                /\ Len(r.providers) = Cardinality({n \in BuiltInKinds : processEnv[n] # ""})]_vars

\* without Claude's credential a router was constructed: its registry holds
\* openai and qwen and nothing else
C21_Witness ==
    /\ processEnv = [claude |-> "", openai |-> "sk", qwen |-> "sk"]
    /\ Len(routers) = 1
    /\ got = 1
    /\ routers[1].providers = <<NewProvider("openai", "sk", 0), NewProvider("qwen", "sk", 0)>>

-----------------------------------------------------------------------------
(* Config object claims, checked under ObjectSpec *)

\* the table the documentation gives as the built-in default
BuiltInTable ==
    [default |-> "claude",
     tasks |-> [conversation |-> "claude", grammar_correction |-> "qwen",
                cultural_explanation |-> "claude", vocabulary |-> "claude",
                exercise_generation |-> "openai", translation |-> "qwen"]]

\* the step is a construction or an updateConfig call
ConstructsOrUpdates == mem' # mem /\ mem'.op \in {"construct", "updateConfig"}

\* C22: a router constructed without overrides reports the built-in table
\* (default claude; conversation, cultural_explanation, vocabulary claude;
\* grammar_correction, translation qwen; exercise_generation openai); one
\* constructed with overrides reports the override for each key the
\* argument has and the built-in value for every other; and a construction
\* or an updateConfig call leaves DEFAULT_ROUTING_CONFIG and the config of
\* every other router as they were, so that DEFAULT_ROUTING_CONFIG reads as
\* the built-in table throughout.
C22_BuiltInTableAndOverrides ==
    /\ [](ConfigAt(mem.heap, 1) = BuiltInTable)
    /\ [][(mem' # mem /\ mem'.op = "construct") =>
            LET reported == ConfigAt(mem'.heap, mem'.held[mem'.who])
            IN  /\ mem'.arg = NoOverride => reported = BuiltInTable
                /\ reported.default = IF mem'.arg.default # Absent
                                      THEN mem'.arg.default
                                      ELSE BuiltInTable.default
                /\ \A t \in TaskType :
                      reported.tasks[t] = IF mem'.arg.tasks[t] # Absent
                                          THEN mem'.arg.tasks[t]
                                          ELSE BuiltInTable.tasks[t]]_vars
    /\ [][ConstructsOrUpdates =>
            /\ ConfigAt(mem'.heap, 1) = ConfigAt(mem.heap, 1)
            /\ \A j \in 1..Len(mem.held) :
                  j # mem'.who =>
                     ConfigAt(mem'.heap, mem'.held[j]) = ConfigAt(mem.heap, mem.held[j])]_vars

\* two routers, the first constructed with overrides and the second without;
\* the second was then told a new default and task, and the first still
\* reports what it was constructed with
C22_Witness ==
    /\ Len(mem.held) = 2
    /\ mem.op = "updateConfig"
    /\ mem.who = 2
    /\ ConfigAt(mem.heap, mem.held[1]) =
          [BuiltInTable EXCEPT !.default = "openai", !.tasks["translation"] = "gemini"]
    /\ ConfigAt(mem.heap, mem.held[2]) =
          [BuiltInTable EXCEPT !.default = "openai", !.tasks["conversation"] = "openai"]
    /\ ConfigAt(mem.heap, 1) = BuiltInTable

-----------------------------------------------------------------------------
(* Lazy resolution, checked under LazySpec *)

\* the step is the first pull of the generator
FirstPulled ==
    /\ call.kind = "stream" /\ call.st = "created"
    /\ call'.kind = "stream" /\ call'.st # "created"

\* C31: router.stream picks its provider at the consumer's first pull, not when
\* stream() is called: the generator made by stream() has picked no provider
\* and sent nothing, the first pull is served by what getProviderForTask gives
\* for the registry and routing config of that moment, and from then on no
\* addProvider or updateConfig changes the provider serving the stream.
C31_ResolvedAtFirstPull ==
    /\ []((call.kind = "stream" /\ call.st = "created") =>
            (call.served = NoProvider /\ call.requests = 0))
    /\ [][FirstPulled =>
            call'.served = GetProviderForTask(config, providers, call.task)]_vars
    /\ [][(call.kind = "stream" /\ call.st = "open" /\ call'.kind = "stream") =>
            call'.served = call.served]_vars

\* an open stream served by another provider than the one routing gave when
\* stream() was called, and by another than the one routing gives now: one
\* update came between the call and the first pull, one after the first pull
C31_Witness ==
    /\ call.kind = "stream"
    /\ call.st = "open"
    /\ call.atCall # NoProvider
    /\ call.served # call.atCall
    /\ call.served # GetProviderForTask(config, providers, call.task)

\* the place of a built-in provider in the order of initializeProviders
Rank(n) == CASE n = "claude" -> 1 [] n = "openai" -> 2 [] n = "qwen" -> 3

\* the registered names, earliest registered first
Names(m) == [i \in 1..Len(m) |-> m[i].name]

\* the entry registered under the name n
Entry(m, n) == m[CHOOSE i \in 1..Len(m) : m[i].name = n]

\* the provider that the task, the routing config and the registry determine
Selected(cfg, m, task) ==
    LET candidate == ProviderNameFor(cfg, task)
    IN  IF candidate \in MapKeys(m) THEN Entry(m, candidate)
        ELSE IF cfg.default \in MapKeys(m) THEN Entry(m, cfg.default)
        ELSE IF m # <<>> THEN m[1]
        ELSE NoProvider

\* C36: the provider selected is determined by the task type, the routing
\* config and the registry in its insertion order.  The registry lists the
\* providers built at construction in the order claude, openai, qwen, then
\* the names added with addProvider in the order of their first addition, a
\* name added again keeping its place; a call is served by the task's
\* candidate if registered, else by the default if registered, else by the
\* provider registered earliest.
C36_SelectionDetermined ==
    /\ [](ops = 0 =>
            \A i, j \in 1..Len(providers) :
               i < j => Rank(providers[i].name) < Rank(providers[j].name))
    /\ [][providers' # providers =>
            \/ Names(providers') = Names(providers)
            \/ \E n \in LLMProviderName \ MapKeys(providers) :
                  Names(providers') = Append(Names(providers), n)]_vars
    /\ [][FirstPulled => call'.served = Selected(config, providers, call.task)]_vars
    /\ [][(/\ FirstPulled
           /\ ProviderNameFor(config, call.task) \notin MapKeys(providers)
           /\ config.default \notin MapKeys(providers)
           /\ providers # <<>>) =>
            /\ call'.served = providers[1]
            /\ \A j \in 2..Len(providers) : call'.served # providers[j]]_vars

\* the default names a provider that is not registered, claude was added
\* again and is still the first of three: it serves a stream without task
C36_Witness ==
    /\ call.kind = "stream"
    /\ call.st = "open"
    /\ call.task = Undef
    /\ config.default \notin MapKeys(providers)
    /\ Names(providers) = <<"claude", "openai", "qwen">>
    /\ providers[1].id > 0
    /\ call.served = providers[1]

\* the names in the array getAvailableProviders() returns
Available(m) ==
    LET ns == GetAvailableProviders(m) IN {ns[i] : i \in 1..Len(ns)}

\* C37: a step of router.chat, router.stream, getConfig, hasProvider or
\* getAvailableProviders, whether the call returns or fails, leaves the
\* registry and the routing config as they were, a call served by a fallback
\* included; updateConfig leaves the registry and what
\* getAvailableProviders returns as they were; getAvailableProviders gives
\* exactly the names hasProvider accepts, and a name once registered stays.
C37_ReadsChangeNothing ==
    /\ [][call' # call => (providers' = providers /\ config' = config)]_vars
    /\ [][config' # config =>
            /\ providers' = providers
            /\ GetAvailableProviders(providers') = GetAvailableProviders(providers)]_vars
    /\ [](\A n \in LLMProviderName :
             n \in Available(providers) <=> HasProvider(providers, n))
    /\ [][Available(providers) \subseteq Available(providers')]_vars

\* a chat call for the grammar task on a router without qwen fell back to
\* the default provider and failed upstream; the table still names qwen
C37_Witness ==
    /\ call.kind = "chat"
    /\ call.st = "failed"
    /\ call.err = "UpstreamError"
    /\ call.task = "grammar_correction"
    /\ call.served.name = "claude"
    /\ config.tasks["grammar_correction"] = "qwen"
    /\ ~HasProvider(providers, "qwen")

-----------------------------------------------------------------------------
(* Teacher and store claims, checked under StoreSpec *)

\* the step is a sendMessage call that reaches the teacher
SendsToTeacher == app'.sends = app.sends + 1 /\ app.teacher # 0

\* the request that the step settles, as a set: empty on other steps
SettledNow == app.pending \ app'.pending

\* the step settles a request with a failure of the router call: the store
\* gets no answer to append
SettlesFailed == SettledNow # {} /\ app'.messages = app.messages

\* roles alternate in h, user first
Alternates(h) ==
    \A i \in 1..Len(h) : h[i].role = (IF i % 2 = 1 THEN "user" ELSE "assistant")

HistoryOf(s, i) == s.teachers[i].conversationHistory

\* C38: teacher.sendMessage adds the user message to the history before the
\* router is called, and what it hands to the router is the system prompt
\* followed by that history; a router call that fails leaves the history as
\* it is, user message included, so the next request carries both user
\* messages one after the other.  The history of a teacher alternates user,
\* assistant, and is complete pairs while no request is under way, as long
\* as none of its requests failed, no two were under way at once and it was
\* not cleared with a request under way.
C38_UserMessageKept ==
    /\ [][SendsToTeacher =>
            LET i == app.teacher
                text == UserText(app'.sends)
            IN  /\ HistoryOf(app', i) = Append(HistoryOf(app, i), Msg("user", text))
                /\ \E r \in app'.pending \ app.pending :
                      /\ r.teacher = i
                      /\ r.sent = <<Msg("system", "prompt")>> \o HistoryOf(app', i)]_vars
    /\ [][SettlesFailed => app'.teachers = app.teachers]_vars
    /\ [](\A i \in 1..Len(app.teachers) :
             i \notin app.troubled =>
                /\ Alternates(HistoryOf(app, i))
                /\ (\A r \in app.pending : r.teacher # i)
                      => Len(HistoryOf(app, i)) % 2 = 0)

\* the first request failed; the second, alone under way, went out with both
\* user messages and no answer between them
C38_Witness ==
    /\ app.teacher = 1
    /\ app.troubled = {1}
    /\ app.pending = {[id |-> 2, teacher |-> 1,
                       sent |-> <<Msg("system", "prompt"), Msg("user", "u1"),
                                  Msg("user", "u2")>>]}
    /\ HistoryOf(app, 1) = <<Msg("user", "u1"), Msg("user", "u2")>>

\* the request r settled in this step, and its teacher got no answer
TeacherGotNone(r) ==
    r \in SettledNow /\ HistoryOf(app', r.teacher) = HistoryOf(app, r.teacher)

\* the fields of the store other than the count of calls
StoreFields(s) ==
    <<s.activeLanguage, s.teacher, s.teachers, s.messages, s.isLoading, s.pending>>

\* C39: the store's sendMessage with a teacher present appends the user
\* message and sets isLoading; when the teacher call settles isLoading is
\* false, after an answer, which is appended, and after a failure, which
\* leaves messages as they were, the user message in them and no assistant
\* message added; isLoading is true only while a request is under way; with
\* no teacher the call changes nothing.
C39_LoadingFlag ==
    /\ [][SendsToTeacher =>
            /\ app'.isLoading
            /\ app'.messages = Append(app.messages, Msg("user", UserText(app'.sends)))]_vars
    /\ [][\A r \in SettledNow :
            /\ ~app'.isLoading
            /\ IF TeacherGotNone(r)
               THEN app'.messages = app.messages
               ELSE app'.messages = Append(app.messages,
                                           Msg("assistant", ReplyText(r.id)))]_vars
    /\ [](app.isLoading => app.pending # {})
    /\ [][(app'.sends # app.sends /\ app.teacher = 0) =>
            StoreFields(app') = StoreFields(app)]_vars

\* the only request failed: nothing is loading, the user message is the last
\* of the messages
C39_Witness ==
    /\ app.sends = 1
    /\ app.pending = {}
    /\ app.troubled = {1}
    /\ ~app.isLoading
    /\ app.messages = <<Msg("assistant", Greeting(app.teachers[1].language)),
                        Msg("user", "u1")>>

\* the step is a setActiveLanguage call
ChangesTeacher == Len(app'.teachers) = Len(app.teachers) + 1

\* C40: setActiveLanguage and clearMessages do not touch the requests under
\* way: they replace the messages by the greeting of the store's teacher and
\* leave pending and isLoading as they are.  The answer of a request whose
\* teacher is no longer the store's teacher goes into the history of the
\* teacher that asked and is appended to the store's messages as they are
\* then, so the messages can hold an answer with no user message before it.
C40_LateAnswerLands ==
    /\ [][ChangesTeacher =>
            /\ app'.teacher = Len(app'.teachers)
            /\ app'.messages
                  = <<Msg("assistant", Greeting(app'.teachers[app'.teacher].language))>>
            /\ app'.pending = app.pending
            /\ app'.isLoading = app.isLoading
            /\ \A i \in 1..Len(app.teachers) : app'.teachers[i] = app.teachers[i]]_vars
    /\ [][(app'.sends = app.sends /\ app'.teachers # app.teachers
           /\ Len(app'.teachers) = Len(app.teachers) /\ SettledNow = {}) =>
            /\ HistoryOf(app', app.teacher) = <<>>
            /\ app'.messages
                  = <<Msg("assistant", Greeting(app.teachers[app.teacher].language))>>
            /\ app'.pending = app.pending
            /\ app'.isLoading = app.isLoading]_vars
    /\ [][\A r \in SettledNow :
            (r.teacher # app.teacher /\ ~TeacherGotNone(r)) =>
               /\ app'.messages = Append(app.messages, Msg("assistant", ReplyText(r.id)))
               /\ HistoryOf(app', r.teacher)
                     = Append(HistoryOf(app, r.teacher), Msg("assistant", ReplyText(r.id)))
               /\ HistoryOf(app', app.teacher) = HistoryOf(app, app.teacher)
               /\ app'.teacher = app.teacher]_vars

\* the language was changed while the first request was under way: its answer,
\* from the first teacher, follows the greeting of the second, and the user
\* message it answers is not among the messages
C40_Witness ==
    /\ app.teacher = 2
    /\ app.teachers[1].language # app.teachers[2].language
    /\ app.messages = <<Msg("assistant", Greeting(app.teachers[2].language)),
                        Msg("assistant", "r1")>>
    /\ HistoryOf(app, 1) = <<Msg("user", "u1"), Msg("assistant", "r1")>>
    /\ HistoryOf(app, 2) = <<>>
    /\ app.pending = {}

-----------------------------------------------------------------------------
(* Recorder claims, checked under RecorderSpec.  Every step is one call on *)
(* the recorder, and rec.op afterwards names it.                           *)

\* the step is a call of the operation op
Calls(op) == rec' # rec /\ rec'.op = op

\* the recorder itself: its fields, the audio mode and the recordings made
RecorderState(r) ==
    <<r.recording, r.isRecording, r.permissionGranted, r.mode, r.made, r.live>>

\* C28: stopRecording called while no recording is active fails with 'No
\* active recording' and leaves the recorder as it was; cancelRecording
\* called while no recording is held ends without an error and leaves the
\* recorder as it was.
C28_NothingToStopOrCancel ==
    /\ [][(Calls("stopRecording") /\ (rec.recording = 0 \/ ~rec.isRecording)) =>
            /\ rec'.threw = Some("No active recording")
            /\ rec'.returned = None
            /\ RecorderState(rec') = RecorderState(rec)]_vars
    /\ [][(Calls("cancelRecording") /\ rec.recording = 0) =>
            /\ rec'.threw = None
            /\ RecorderState(rec') = RecorderState(rec)]_vars

\* a recording was made and cancelled, and then stopRecording was called
C28_Witness ==
    /\ rec.op = "stopRecording"
    /\ rec.threw = Some("No active recording")
    /\ rec.made = 1
    /\ rec.live = {}
    /\ rec.recording = 0
    /\ rec.mode = "idle"

\* C29: getIsRecording() is false on a new recorder, true after a
\* startRecording that succeeded and false after every stopRecording and
\* cancelRecording, however the calls to expo-av inside them went; a
\* startRecording that fails leaves it as it was, so false on a recorder that
\* was not recording; and between calls isRecording is true exactly when a
\* recording is held.
C29_RecorderLifecycle ==
    /\ [](GetIsRecording(rec) <=> rec.recording # 0)
    /\ [](rec.op = "new" => ~GetIsRecording(rec))
    /\ [][(Calls("startRecording") /\ rec'.threw = None) => GetIsRecording(rec')]_vars
    /\ [][(Calls("startRecording") /\ rec'.threw # None) =>
            /\ GetIsRecording(rec') = GetIsRecording(rec)
            /\ rec'.recording = rec.recording]_vars
    /\ [][(Calls("stopRecording") \/ Calls("cancelRecording")) =>
            ~GetIsRecording(rec')]_vars

\* a recording was started, and stopRecording failed inside expo-av: the
\* recorder holds no recording any more, the recording is still loaded
C29_Witness ==
    /\ rec.op = "stopRecording"
    /\ rec.threw = Some("native")
    /\ ~GetIsRecording(rec)
    /\ rec.recording = 0
    /\ rec.live = {1}

-----------------------------------------------------------------------------
(* Router claims, checked under Spec.  addProvider and updateConfig run    *)
(* only once the outcome of an ended call has been taken, so `call`, once  *)
(* ended, is the outcome of a call made with the current registry and      *)
(* config.                                                                 *)

ChatEnded == call.kind = "chat"
ChatReturned == call.kind = "chat" /\ call.st = "returned"

\* the routing table's entry for the task of the call, Undef when there is
\* no task or no entry
TableEntry == IF call.task = Undef THEN Undef ELSE config.tasks[call.task]

Registered(n) == \E i \in 1..Len(providers) : providers[i].name = n
Instance(n) == providers[CHOOSE i \in 1..Len(providers) : providers[i].name = n]
RegisteredConfigured(n) == Registered(n) /\ Instance(n).apiKey # ""

\* the call went to provider instance p and no routing error was raised; if a
\* Response came back, its provider field is p's name
ServedBy(p) ==
    /\ call.served = p
    /\ call.err \notin {"NotConfigured", "NoProviderConfigured"}
    /\ call.st = "returned" => call.respProvider = p.name

\* C1: whenever the routing table's entry for the task of a chat call names a
\* provider that is registered and configured, the call is delegated to
\* exactly that provider and a returned Response carries that entry as its
\* provider.
C1_TaskEntryServes ==
    (ChatEnded /\ TableEntry # Undef /\ RegisteredConfigured(TableEntry))
        => /\ ServedBy(Instance(TableEntry))
           /\ call.st = "returned" => call.respProvider = TableEntry

C1_Witness ==
    /\ ChatReturned
    /\ call.task = "grammar_correction"
    /\ call.respProvider = "qwen"
    /\ config.default = "claude"
    /\ Registered("claude")

\* C2: when the table's entry for the task names a provider that is not in
\* the registry and the default provider is registered and configured, the
\* chat call is served by the default provider, without a routing error, and
\* a returned Response carries config.default as its provider.
C2_AbsentFallsBackToDefault ==
    (ChatEnded /\ TableEntry # Undef /\ ~Registered(TableEntry)
        /\ RegisteredConfigured(config.default))
        => /\ ServedBy(Instance(config.default))
           /\ call.st = "returned" => call.respProvider = config.default

C2_Witness ==
    /\ ChatReturned
    /\ call.task = "grammar_correction"
    /\ TableEntry = "qwen"
    /\ ~Registered("qwen")
    /\ config.default = "openai"
    /\ call.respProvider = "openai"
    /\ Len(providers) = 2

\* C3: when the table's entry for the task names a provider that is
\* registered but not configured, and the default provider is registered and
\* configured, the chat call is served by the default provider and no
\* NotConfigured error reaches the caller.
C3_UnconfiguredFallsBackToDefault ==
    (ChatEnded /\ TableEntry # Undef /\ Registered(TableEntry)
        /\ ~RegisteredConfigured(TableEntry)
        /\ RegisteredConfigured(config.default))
        => ServedBy(Instance(config.default))

\* C4: whenever at least one registered provider is configured, a chat call
\* with any task type or none is delegated to a configured provider and fails
\* neither with NotConfigured nor with NoProviderConfigured.
C4_SomeConfiguredProviderServes ==
    (ChatEnded /\ \E i \in 1..Len(providers) : providers[i].apiKey # "")
        => /\ call.served # NoProvider
           /\ call.served.apiKey # ""
           /\ call.err \notin {"NotConfigured", "NoProviderConfigured"}

\* C5: with an empty registry every chat call, and every stream call at its
\* first pull, fails with NoProviderConfigured, whatever the task type and the
\* routing config; no provider is called, no request is issued and no chunk
\* is produced.
C5_EmptyRegistryFails ==
    (Len(providers) = 0 /\ call.kind \in {"chat", "stream"} /\ call.st # "created")
        => /\ call.st = "failed"
           /\ call.err = "NoProviderConfigured"
           /\ call.served = NoProvider
           /\ call.requests = 0
           /\ call.chunks = 0

C5_Witness ==
    /\ Len(providers) = 0
    /\ call.kind = "stream"
    /\ call.st = "failed"
    /\ call.err = "NoProviderConfigured"
    /\ call.task = "translation"
    /\ config.default = "gemini"

\* C6: a chat call without a task type, or with a task type that has no
\* routing-table entry, is served by the config's current default provider
\* whenever that provider is registered, and a returned Response carries
\* config.default as its provider.
C6_NoTaskUsesDefault ==
    (ChatEnded /\ TableEntry = Undef /\ Registered(config.default))
        => /\ call.served = Instance(config.default)
           /\ call.err # "NoProviderConfigured"
           /\ call.st = "returned" => call.respProvider = config.default

C6_Witness ==
    /\ ChatReturned
    /\ call.task = "conversation"
    /\ config.tasks["conversation"] = Undef
    /\ config.default = "openai"
    /\ call.respProvider = "openai"
    /\ Registered("claude")

\* C7: the provider field of every Response returned by a chat call is the
\* name of the registered provider instance that was called, also after a
\* fallback; it is the name of the table's candidate only if the candidate
\* served the call.
C7_ResponseNamesServer ==
    ChatReturned
        => /\ call.respProvider = call.served.name
           /\ Registered(call.served.name)
           /\ Instance(call.served.name) = call.served
           /\ call.respProvider = TableEntry => call.served.name = TableEntry

C7_Witness ==
    /\ ChatReturned
    /\ call.task = "grammar_correction"
    /\ TableEntry = "qwen"
    /\ config.default = "gemini"
    /\ ~Registered("qwen")
    /\ ~Registered("gemini")
    /\ call.respProvider = "openai"

-----------------------------------------------------------------------------
(* Registry claims, checked under Spec.  A step that raises ops and        *)
(* changes the registry is an addProvider call; the instance it was given  *)
(* is the one whose id is the new value of ops.                            *)

AddProviderStep == ops' = ops + 1 /\ providers' # providers

\* the names in the sequence ns
Members(ns) == {ns[i] : i \in 1..Len(ns)}

\* C17: after addProvider(p), hasProvider(p.name) is true, p.name is among
\* getAvailableProviders(), and the entry under p.name is p itself, whatever
\* was registered under that name before; every entry under another name and
\* the routing config are as they were; the registry never holds two entries
\* of the same name, and a call that was delegated went to the instance
\* that is registered under its name now.
C17_AddProviderReplaces ==
    /\ [][AddProviderStep =>
            \E n \in LLMProviderName :
               /\ HasProvider(providers', n)
               /\ n \in Members(GetAvailableProviders(providers'))
               /\ MapGet(providers', n).name = n
               /\ MapGet(providers', n).id = ops'
               /\ \A o \in LLMProviderName \ {n} :
                     /\ HasProvider(providers', o) <=> HasProvider(providers, o)
                     /\ MapGet(providers', o) = MapGet(providers, o)
               /\ config' = config]_vars
    /\ [](/\ \A i, j \in 1..Len(providers) :
                i # j => providers[i].name # providers[j].name
          /\ Len(GetAvailableProviders(providers)) = Cardinality(MapKeys(providers))
          /\ (call.kind = "chat" /\ call.served # NoProvider)
                => MapGet(providers, call.served.name) = call.served)

\* qwen, built at construction, was replaced by a second instance, which
\* serves the grammar task
C17_Witness ==
    /\ ChatReturned
    /\ call.task = "grammar_correction"
    /\ call.served = NewProvider("qwen", "sk", 1)
    /\ providers = << NewProvider("claude", "sk", 0), NewProvider("openai", "sk", 0),
                      NewProvider("qwen", "sk", 1) >>

\* the routing table has an entry, a task's or the default, that names n
Pointed(cfg, n) == cfg.default = n \/ \E t \in TaskType : cfg.tasks[t] = n

\* a chat call, or the first pull of a stream call, selects a provider that
\* was added with addProvider under a name no routing-table entry names
SelectsUnrouted ==
    /\ call'.served # call.served
    /\ call'.served # NoProvider
    /\ call'.served.id > 0
    /\ ~Pointed(config, call'.served.name)

\* C18 as stated: router.chat and router.stream never select a provider
\* that was added with addProvider under a name that no routing-table entry,
\* task or default, points at.
C18_UnroutedNeverSelected == [][~SelectsUnrouted]_vars

\* C18 as amended: such a provider is selected only as the last resort,
\* when neither the routing-table entry for the call's task nor the default
\* is registered and it is the first entry of the registry; whenever one of
\* the two is registered it is not selected.
C18_UnroutedOnlyAsLastResort ==
    [][SelectsUnrouted =>
         /\ ~HasProvider(providers, ProviderNameFor(config, call'.task))
         /\ ~HasProvider(providers, config.default)
         /\ providers[1] = call'.served]_vars

\* no credential in the environment, gemini added: it serves a stream call
C18_Witness ==
    /\ call.kind = "stream"
    /\ call.st = "open"
    /\ call.task = "translation"
    /\ call.served = NewProvider("gemini", "sk", 1)
    /\ providers = << NewProvider("gemini", "sk", 1) >>
    /\ ~Pointed(config, "gemini")

-----------------------------------------------------------------------------
(* Provider claims, checked under ProviderSpec *)

\* a provider.chat or provider.stream call was made on an instance directly
DirectCall == xch.via = "provider"

\* the word each class puts in front of its error messages
ClassWord(n) ==
    CASE n = "claude" -> "Claude"
      [] n = "openai" -> "OpenAI"
      [] n = "qwen" -> "Qwen"

\* C11: for each of the three providers, a chat or stream call on an
\* instance whose credential is the empty string fails with the NotConfigured
\* error "<Provider> API key not configured" of that provider, sends no
\* request, returns no Response and never enters the read loop (so produces
\* no chunk); a call on an instance with a non-empty credential never fails
\* with NotConfigured.
C11_UnconfiguredFailsWithoutRequest ==
    DirectCall =>
        /\ xch.served.apiKey = "" =>
              /\ xch.result.st = "failed"
              /\ xch.result.err = "NotConfigured"
              /\ xch.result.msg = <<ClassWord(xch.served.name), " API key not configured">>
              /\ xch.result.sent = <<>>
              /\ xch.result.response = None
        /\ xch.served.apiKey # "" => xch.result.err # "NotConfigured"
        /\ IsConfigured(xch.served) <=> xch.served.apiKey # ""

C11_Witness ==
    /\ DirectCall
    /\ xch.op = "stream"
    /\ xch.served.name = "qwen"
    /\ xch.served.apiKey = ""
    /\ xch.reply.status = 200
    /\ xch.reply.hasBody
    /\ xch.result.msg = <<"Qwen", " API key not configured">>

\* the endpoint each class sends its requests to
ClassUrl(n) ==
    CASE n = "claude" -> "api.anthropic.com/v1/messages"
      [] n = "openai" -> "api.openai.com/v1/chat/completions"
      [] n = "qwen" -> "dashscope.aliyuncs.com/compatible-mode/v1/chat/completions"

\* the endpoint answered the call with a non-success status
UpstreamFailure ==
    /\ xch.via \in {"provider", "router"}
    /\ xch.served # NoProvider
    /\ xch.served.apiKey # ""
    /\ xch.reply.kind = "response"
    /\ xch.reply.status \notin 200..299

\* C12: when the endpoint answers a configured provider with a non-success
\* status, chat, and stream at its first pull, fail with the UpstreamError
\* "<Provider> API error: <status> - <body>" built from that status and the
\* raw text of the response; no Response is returned and no read loop is
\* entered; exactly one request was sent, to the endpoint of the provider
\* that was called; a call made through the router ends in the same error,
\* with the same single request, as the call on the selected provider.
C12_UpstreamErrorOnce ==
    UpstreamFailure =>
        /\ xch.result.st = "failed"
        /\ xch.result.err = "UpstreamError"
        /\ xch.result.msg = <<ClassWord(xch.served.name), " API error: ",
                              StatusText(xch.reply.status), " - ", xch.reply.text>>
        /\ xch.result.response = None
        /\ Len(xch.result.sent) = 1
        /\ xch.result.sent[1].url = ClassUrl(xch.served.name)
        /\ xch.via = "router" =>
              /\ xch.served = GetProviderForTask(config, providers, xch.task)
              /\ xch.op = "chat" =>
                    xch.result = ChatOf(xch.served, xch.messages, xch.options, xch.reply)
              /\ xch.op = "stream" =>
                    xch.result = StreamOpenOf(xch.served, xch.messages, xch.options, xch.reply)

\* qwen fails upstream while claude, also registered, is not tried
C12_Witness ==
    /\ xch.via = "router"
    /\ xch.op = "chat"
    /\ xch.task = "grammar_correction"
    /\ xch.served.name = "qwen"
    /\ Registered("claude")
    /\ xch.reply.status = 401
    /\ xch.result.msg = <<"Qwen", " API error: ", "401", " - ", "denied">>
    /\ Len(xch.result.sent) = 1

\* the content/choices array of the envelope of the exchange, None if the
\* envelope has none
EnvelopeArray ==
    IF xch.served.name = "claude"
    THEN Get(xch.reply.data).content ELSE Get(xch.reply.data).choices

\* C13: a chat call on a configured provider that the endpoint answers with
\* a success status and a JSON envelope returns a Response, whatever the
\* shape of the envelope; when the envelope has no content/choices array the
\* content of the Response is ''.
C13_SuccessStatusAlwaysReturns ==
    (/\ xch.op = "chat"
     /\ xch.served # NoProvider
     /\ xch.served.apiKey # ""
     /\ xch.reply.kind = "response"
     /\ xch.reply.status \in 200..299
     /\ IsSome(xch.reply.data))
        => /\ xch.result.st = "returned"
           /\ IsSome(xch.result.response)
           /\ ~IsSome(EnvelopeArray) => Get(xch.result.response).content = ""

\* a chat call has returned a Response
ChatGaveResponse ==
    /\ xch.op = "chat"
    /\ xch.result.st = "returned"

\* the counters of the envelope of the exchange: input, output and total,
\* each None when the envelope has no usage or the usage has no such counter
UpstreamInput ==
    LET data == Get(xch.reply.data)
    IN  IF ~IsSome(data.usage) THEN None
        ELSE IF xch.served.name = "claude" THEN Get(data.usage).input_tokens
        ELSE Get(data.usage).prompt_tokens

UpstreamOutput ==
    LET data == Get(xch.reply.data)
    IN  IF ~IsSome(data.usage) THEN None
        ELSE IF xch.served.name = "claude" THEN Get(data.usage).output_tokens
        ELSE Get(data.usage).completion_tokens

UpstreamTotal ==
    LET data == Get(xch.reply.data)
    IN  IF ~IsSome(data.usage) \/ xch.served.name = "claude" THEN None
        ELSE Get(data.usage).total_tokens

\* C23: the usage of a Response has inputTokens and outputTokens equal to
\* the endpoint's counters, 0 for a counter the endpoint left out, and
\* totalTokens equal to the endpoint's total when it gave one and to
\* inputTokens + outputTokens when it did not.
C23_UsageNormalised ==
    ChatGaveResponse =>
        LET usage == Get(xch.result.response).usage
        IN  /\ usage.inputTokens = (IF IsSome(UpstreamInput) THEN Get(UpstreamInput) ELSE 0)
            /\ usage.outputTokens = (IF IsSome(UpstreamOutput) THEN Get(UpstreamOutput) ELSE 0)
            /\ usage.totalTokens = (IF IsSome(UpstreamTotal) THEN Get(UpstreamTotal)
                                    ELSE usage.inputTokens + usage.outputTokens)

\* a request went out in the exchange
RequestSent == xch.op \in {"chat", "stream"} /\ Len(xch.result.sent) > 0

\* the places of the system messages and of the others in the list given
SystemPlaces == {i \in 1..Len(xch.messages) : xch.messages[i].role = "system"}
TurnPlaces == {i \in 1..Len(xch.messages) : xch.messages[i].role # "system"}

\* the k-th smallest member of the set of places ps
KthPlace(ps, k) == CHOOSE i \in ps : Cardinality({j \in ps : j < i}) = k - 1

\* C24: the request of the Claude provider, for chat and for stream alike,
\* has a system field exactly when the list given has a system message, with
\* the content of that message (of the first, should there be several)
\* wherever it sits in the list, and its messages are the non-system
\* messages of the list, each once, in the order they have in the list.
C24_ClaudeSystemSplit ==
    (RequestSent /\ xch.served.name = "claude") =>
        LET wire == xch.result.sent[1]
        IN  /\ IsSome(wire.system) <=> SystemPlaces # {}
            /\ SystemPlaces # {} =>
                  Get(wire.system) = xch.messages[KthPlace(SystemPlaces, 1)].content
            /\ Len(wire.messages) = Cardinality(TurnPlaces)
            /\ \A k \in 1..Len(wire.messages) :
                  wire.messages[k] = xch.messages[KthPlace(TurnPlaces, k)]

\* a stream call on Claude with the system message between two turns
C24_Witness ==
    /\ xch.op = "stream"
    /\ xch.served.name = "claude"
    /\ xch.messages = << Msg("user", "q"), Msg("system", "s1"), Msg("user", "q2") >>
    /\ Len(xch.result.sent) = 1
    /\ xch.result.sent[1].system = Some("s1")
    /\ xch.result.sent[1].messages = << Msg("user", "q"), Msg("user", "q2") >>

\* C25: the request of the OpenAI and Qwen providers, for chat and for
\* stream, given a list with one system message, has that message as the
\* first of its messages and after it the other messages of the list in the
\* order they have in the list, wherever the system message sits.
C25_InlineSystemFirst ==
    (/\ RequestSent
     /\ xch.served.name \in {"openai", "qwen"}
     /\ Cardinality(SystemPlaces) = 1) =>
        LET wire == xch.result.sent[1]
        IN  /\ Len(wire.messages) = Len(xch.messages)
            /\ wire.messages[1] = xch.messages[KthPlace(SystemPlaces, 1)]
            /\ \A k \in 1..Cardinality(TurnPlaces) :
                  wire.messages[k + 1] = xch.messages[KthPlace(TurnPlaces, k)]

\* a stream call on a configured provider that the endpoint answered
StreamAnswered ==
    /\ xch.op = "stream"
    /\ xch.served # NoProvider
    /\ xch.served.apiKey # ""
    /\ xch.reply.kind = "response"

\* C27: a stream call answered with a success status and no readable body
\* fails with 'No response body' after its one request and yields no chunk,
\* the terminal chunk included; answered with a non-success status it fails
\* with the '<X> API error: <status> - <text>' error, again with no chunk,
\* whether the response has a readable body or not.
C27_NoBodyFailsWithoutChunk ==
    StreamAnswered =>
        /\ (xch.reply.status \in 200..299 /\ ~xch.reply.hasBody) =>
              /\ xch.result.st = "failed"
              /\ xch.result.err = "NoResponseBody"
              /\ xch.result.msg = <<"No response body">>
              /\ Len(xch.result.sent) = 1
              /\ xch.produced = <<>>
              /\ xch.forwarded = <<>>
        /\ xch.reply.status \notin 200..299 =>
              /\ xch.result.st = "failed"
              /\ xch.result.err = "UpstreamError"
              /\ xch.result.msg = <<ClassWord(xch.served.name), " API error: ",
                                    StatusText(xch.reply.status), " - ", xch.reply.text>>
              /\ xch.produced = <<>>
              /\ xch.forwarded = <<>>

\* a stream on an OpenAI instance, answered 401 without a body
C27_Witness ==
    /\ xch.via = "provider"
    /\ xch.op = "stream"
    /\ xch.served = NewProvider("openai", "sk", 0)
    /\ xch.reply.status = 401
    /\ ~xch.reply.hasBody
    /\ xch.result.err = "UpstreamError"

-----------------------------------------------------------------------------
(* Config claims, checked under ConfigSpec.  A step that raises ops is an  *)
(* updateConfig call, and hist.arg is then its argument; a step that       *)
(* raises hist.writes is a write of the caller into a getConfig() result.  *)

\* C14: every updateConfig call sets each task its argument names to the
\* value given and leaves every other task as it was, and the default too
\* when the argument does not name it; so, as long as updateConfig calls are
\* all that was done to the config, each task maps to the value of the last
\* call that named it, or to its value at construction if none did.
C14_TaskUpdatesMerge ==
    /\ [][ops' = ops + 1 =>
            /\ \A t \in TaskType :
                  config'.tasks[t] = IF hist'.arg.tasks[t] # Absent
                                     THEN hist'.arg.tasks[t] ELSE config.tasks[t]
            /\ hist'.arg.default = Absent => config'.default = config.default]_vars
    /\ [](hist.writes = 0 =>
            \A t \in TaskType :
               config.tasks[t] = IF hist.named.tasks[t] # Absent
                                 THEN hist.named.tasks[t] ELSE hist.initial.tasks[t])

\* two updates, each naming one task: both values are there, and a task
\* that the constructor was given keeps its value
C14_Witness ==
    /\ ops = 2
    /\ hist.writes = 0
    /\ hist.arg = [default |-> Absent,
                   tasks |-> [NoTasks EXCEPT !["grammar_correction"] = "openai"]]
    /\ hist.named.tasks["conversation"] = "gemini"
    /\ config.tasks["conversation"] = "gemini"
    /\ config.tasks["grammar_correction"] = "openai"
    /\ config.tasks["translation"] = "gemini"
    /\ config.tasks["vocabulary"] = "claude"
    /\ config.default = "openai"

\* C15: an updateConfig call whose argument names default makes the default
\* the value given, whatever it was before; one that names no task leaves
\* every task mapping as it was; one that does not name default leaves the
\* default as it was.
C15_DefaultReplaced ==
    [][ops' = ops + 1 =>
         /\ hist'.arg.default # Absent => config'.default = hist'.arg.default
         /\ hist'.arg.default = Absent => config'.default = config.default
         /\ hist'.arg.tasks = NoTasks => config'.tasks = config.tasks]_vars

\* the default given to the constructor is replaced, the tasks are not
C15_Witness ==
    /\ ops = 1
    /\ hist.initial.default = "openai"
    /\ hist.arg = [default |-> "qwen", tasks |-> NoTasks]
    /\ config.default = "qwen"
    /\ config.tasks = hist.initial.tasks
    /\ config.tasks["translation"] = "gemini"

\* C16: no write a caller makes into the object it got from getConfig(),
\* into its default or into an entry of its tasks, changes the router's
\* config (what a later getConfig() reports) or the provider the router
\* selects for any task type.
C16_GetConfigIsDefensiveCopy ==
    [][hist'.writes = hist.writes + 1 =>
         /\ config' = config
         /\ \A t \in TaskArg :
               GetProviderForTask(config', providers', t)
                   = GetProviderForTask(config, providers, t)]_vars

\* C19: a call made through the router goes to the provider that
\* getProviderForTask selects and to no other: at most one request is
\* sent, to that provider's endpoint with that provider's key; router.chat
\* ends exactly as that provider's chat ends on the same messages, options
\* and reply (the same Response, or the same error); router.stream opens
\* exactly as that provider's stream and then yields the chunks of the
\* provider's generator, the same chunks in the same order up to and
\* including its terminal chunk, none added, dropped or altered.
C19_RouterAddsNothing ==
    (xch.via = "router" /\ xch.served # NoProvider) =>
        /\ xch.served = GetProviderForTask(config, providers, xch.task)
        /\ Len(xch.result.sent) <= 1
        /\ \A i \in 1..Len(xch.result.sent) :
              /\ xch.result.sent[i].url = ClassUrl(xch.served.name)
              /\ xch.result.sent[i].key = xch.served.apiKey
        /\ xch.op = "chat" =>
              /\ xch.result = ChatOf(xch.served, xch.messages, xch.options, xch.reply)
              /\ xch.result.st = "returned" =>
                    Get(xch.result.response).provider = xch.served.name
        /\ xch.op = "stream" =>
              /\ xch.result = StreamOpenOf(xch.served, xch.messages, xch.options, xch.reply)
              /\ xch.forwarded = xch.produced
              /\ xch.result.st # "open" => xch.forwarded = <<>>

\* a stream through the router to qwen, forwarded up to the terminal chunk
C19_Witness ==
    /\ xch.via = "router"
    /\ xch.op = "stream"
    /\ xch.task = "translation"
    /\ xch.served.name = "qwen"
    /\ Len(providers) = 3
    /\ xch.produced = <<Chunk("a", FALSE), Terminal>>
    /\ xch.forwarded = <<Chunk("a", FALSE), Terminal>>

-----------------------------------------------------------------------------
(* Singleton claims, checked under SingletonSpec *)

\* C20: the slot is empty or holds one of the routers constructed; while it
\* holds a router, that router is what the latest getLLMRouter call returned
\* and what the next one returns, until a reset empties the slot; a
\* getLLMRouter call on an empty slot constructs one router, distinct from
\* all routers constructed before, whose registry is built from the
\* credentials in the environment at that time and whose config is the
\* built-in one merged with the argument, and leaves the earlier routers as
\* they are.
C20_OneRouterUntilReset ==
    /\ [](/\ routerInstance \in 0..Len(routers)
          /\ routerInstance # 0 => got = routerInstance)
    /\ [][/\ (routerInstance # 0 /\ routerInstance' # 0)
               => (routerInstance' = routerInstance /\ got' = got
                   /\ Len(routers') = Len(routers))
          /\ got' # got => (got' = routerInstance' /\ routerInstance = 0)
          /\ (routerInstance = 0 /\ routerInstance' # 0)
               => /\ routerInstance' = Len(routers) + 1
                  /\ got' = routerInstance'
                  /\ Len(routers') = Len(routers) + 1
                  /\ \A i \in 1..Len(routers) : routers'[i] = routers[i]
                  /\ routers'[routerInstance'].providers = InitializeProviders(processEnv)
                  /\ \E cfgArg \in ConfigOverrides :
                        routers'[routerInstance'].config
                            = MergeConfig(DEFAULT_ROUTING_CONFIG, cfgArg)]_vars

\* a second router, constructed after a reset and a change of credentials,
\* while the first one, changed by its holder, still exists
C20_Witness ==
    /\ Len(routers) = 2
    /\ routerInstance = 2
    /\ got = 2
    /\ routers[1].config.default = "gemini"
    /\ Len(routers[1].providers) = 2
    /\ routers[2].config = DEFAULT_ROUTING_CONFIG
    /\ Len(routers[2].providers) = 3

\* the step is a getLLMRouter call whose argument is not that of the call before
GetsWithOtherConfig == hist' # hist

\* C35: getLLMRouter called with a config while the slot holds a router
\* returns that router and leaves the slot and every router's registry and
\* routing config as they were; the config passed to the call that finds the
\* slot empty is the one merged into the new router's config.
C35_ConfigIgnoredWhenHeld ==
    /\ [](routerInstance # 0 =>
            \A cfgArg \in ConfigOverrides :
               GetLLMRouter(routerInstance, routers, cfgArg, processEnv)
                   = [routerInstance |-> routerInstance, routers |-> routers])
    /\ [][(GetsWithOtherConfig /\ routerInstance # 0) =>
            /\ routerInstance' = routerInstance
            /\ got' = routerInstance
            /\ routers' = routers]_vars
    /\ [][(GetsWithOtherConfig /\ routerInstance = 0) =>
            /\ routerInstance' = Len(routers) + 1
            /\ routers'[routerInstance'].config
                  = MergeConfig(DEFAULT_ROUTING_CONFIG, Get(hist'))]_vars

\* the router in the slot was made without a config and nobody has changed it;
\* the latest getLLMRouter call passed a config naming openai the default
C35_Witness ==
    /\ routerInstance = 1
    /\ got = 1
    /\ Len(routers) = 1
    /\ hist # None
    /\ Get(hist).default = "openai"
    /\ routers[1].config = DEFAULT_ROUTING_CONFIG

-----------------------------------------------------------------------------
(* Stream claims, checked under StreamSpec *)

\* the generator has produced its last chunk
Completed == spc \in {"yieldedLast", "returned"}

\* the body as the endpoint wrote it: its newline-terminated lines, and the
\* text after the last newline
WrittenLines ==
    LET parts == SplitNL(body, <<>>, <<>>) IN SubSeq(parts, 1, Len(parts) - 1)

WrittenRest ==
    LET parts == SplitNL(body, <<>>, <<>>) IN parts[Len(parts)]

DoneLine == <<DATA, SP, DONE>>

\* the `data: ` line carrying text t as a content delta in the shape of the
\* provider's endpoint
DeltaLine(p, t) ==
    <<DATA, SP,
      CASE p.name = "claude" /\ t = "a" -> "cbd_a"
        [] p.name = "claude" /\ t = "b" -> "cbd_b"
        [] p.name # "claude" /\ t = "a" -> "oa_a"
        [] p.name # "claude" /\ t = "b" -> "oa_b">>

IsDeltaLine(p, line) == \E t \in {"a", "b"} : line = DeltaLine(p, t)
TextOf(p, line) == CHOOSE t \in {"a", "b"} : line = DeltaLine(p, t)

\* a `data: ` line whose payload is not JSON, or is JSON of another shape
\* than the provider's content delta
IsUnusableLine(p, line) ==
    \/ line = <<DATA, SP, "bad">>
    \/ line = <<DATA, SP, "msg_stop">>
    \/ p.name # "claude" /\ line = <<DATA, SP, "oa_empty">>

\* the lines before the first terminal marker line
RECURSIVE BeforeDone(_)
BeforeDone(ls) ==
    IF ls = <<>> \/ Head(ls) = DoneLine THEN <<>>
    ELSE <<Head(ls)>> \o BeforeDone(Tail(ls))

\* the chunks of the delta lines among ls, in order
RECURSIVE DeltaChunks(_, _)
DeltaChunks(p, ls) ==
    IF ls = <<>> THEN <<>>
    ELSE (IF IsDeltaLine(p, Head(ls))
          THEN <<Chunk(TextOf(p, Head(ls)), FALSE)>> ELSE <<>>)
         \o DeltaChunks(p, Tail(ls))

IsPrefix(a, b) == Len(a) <= Len(b) /\ a = SubSeq(b, 1, Len(a))

\* C8: a provider stream has at most one chunk with done = true; that chunk
\* has empty content, is the last chunk produced and appears exactly when the
\* stream has completed, by the [DONE] marker or by the end of the body; no
\* chunk ever follows it.
C8_OneTerminalChunkLast ==
    /\ \A i \in 1..Len(out) :
          out[i].done => (i = Len(out) /\ out[i].content = "" /\ Completed)
    /\ Completed => (out # <<>> /\ out[Len(out)] = Terminal)
    /\ spc = "failed" => out = <<>>

\* completed by [DONE] with a later line of the same read left unprocessed
\* and later text of the body never read
C8_Witness ==
    /\ spc = "returned"
    /\ out = <<Terminal>>
    /\ lines # <<>>
    /\ pos < Len(body)
    /\ WrittenLines[1] = DoneLine

\* C9: when the body is n >= 0 content-delta lines in the provider's shape,
\* each newline-terminated, followed by the terminal marker line, the chunks
\* produced so far are always a prefix of (t1,false), ..., (tn,false),
\* ('',true), and are exactly that sequence once the stream has completed.
C9_DeltasThenDone ==
    LET ls == WrittenLines
        n == Len(ls) - 1
    IN  (/\ body # <<>>
         /\ body[Len(body)] = NL
         /\ n >= 0
         /\ WrittenRest = <<>>
         /\ ls[n + 1] = DoneLine
         /\ \A i \in 1..n : IsDeltaLine(sprov, ls[i]))
        => LET expected == DeltaChunks(sprov, SubSeq(ls, 1, n)) \o <<Terminal>>
           IN  /\ IsPrefix(out, expected)
               /\ Completed => out = expected

C9_Witness ==
    /\ sprov.name = "qwen"
    /\ spc = "returned"
    /\ body = DeltaLine(sprov, "a") \o <<NL>> \o DeltaLine(sprov, "b") \o <<NL>>
                \o DoneLine \o <<NL>>
    /\ out = <<Chunk("a", FALSE), Chunk("b", FALSE), Terminal>>

\* C10: when the newline-terminated lines of the body before the terminal
\* marker (or all of them, if there is none) are content-delta lines and at
\* least one `data: ` line whose payload is not JSON or not a content delta,
\* the stream does not fail, the chunks produced so far are always a prefix
\* of the delta lines' chunks in order followed by the terminal chunk, and
\* are exactly that once the stream has completed.
C10_UnusableLinesSkipped ==
    LET ls == BeforeDone(WrittenLines)
    IN  (/\ spc \notin {"created", "failed"}
         /\ body # <<>>
         /\ body[Len(body)] = NL
         /\ WrittenRest = <<>>
         /\ \A i \in 1..Len(ls) :
               IsDeltaLine(sprov, ls[i]) \/ IsUnusableLine(sprov, ls[i])
         /\ \E i \in 1..Len(ls) : IsUnusableLine(sprov, ls[i]))
        => LET expected == DeltaChunks(sprov, ls) \o <<Terminal>>
           IN  /\ IsPrefix(out, expected)
               /\ (Completed /\ (pos = Len(body) \/ Len(ls) < Len(WrittenLines)))
                     => out = expected

C10_Witness ==
    /\ sprov.name = "openai"
    /\ spc = "returned"
    /\ closed
    /\ body = DeltaLine(sprov, "a") \o <<NL, DATA, SP, "bad", NL>>
                \o DeltaLine(sprov, "b") \o <<NL>>
    /\ out = <<Chunk("a", FALSE), Chunk("b", FALSE), Terminal>>

\* C26: a provider stream does not read ahead.  A reader.read() is pending,
\* and one resolves, only while a pull of the consumer is unanswered and no
\* line parsed from an earlier read is left unprocessed, so every chunk
\* parsed so far has been handed over; the chunks handed over never exceed
\* the pulls made; and while every pull has been answered and the consumer
\* makes no further pull, nothing is read and no chunk is produced.
C26_NoReadAhead ==
    /\ [](Len(out) <= pulls)
    /\ [](spc = "reading" => (lines = <<>> /\ Len(out) < pulls))
    /\ [][pos' # pos => (lines = <<>> /\ Len(out) < pulls)]_vars
    /\ [][(pulls' = pulls /\ Len(out) = pulls) =>
            (pos' = pos /\ out' = out /\ spc' = spc /\ buffer' = buffer)]_vars

\* the consumer got a chunk and has not pulled again: text of the body is
\* still unread and lines of the last read are still unprocessed
C26_Witness ==
    /\ spc = "yielded"
    /\ pulls >= 1
    /\ Len(out) = pulls
    /\ lines # <<>>
    /\ pos < Len(body)

\* the chunks of the lines ls taken in order, up to and with the first chunk
\* that ends the stream
RECURSIVE ChunksOf(_, _)
ChunksOf(p, ls) ==
    IF ls = <<>> THEN <<>>
    ELSE LET ev == LineEvent(p, Head(ls))
         IN  IF ~ev.yields THEN ChunksOf(p, Tail(ls))
             ELSE IF ev.ends THEN <<ev.chunk>>
             ELSE <<ev.chunk>> \o ChunksOf(p, Tail(ls))

\* what the whole body gives when it arrives in a single read and then ends
InOneRead ==
    LET cs == ChunksOf(sprov, WrittenLines)
    IN  IF cs # <<>> /\ cs[Len(cs)].done THEN cs ELSE cs \o <<Terminal>>

\* C32: the chunks a provider stream produces depend on the text of the
\* response body alone, not on how the reads divide it: however the reads
\* fall, inside a line and inside `data: ` included, the chunks produced so
\* far are a prefix of what the body gives when read at once, and are
\* exactly that once the stream has completed.
C32_ReadsDoNotMatter ==
    /\ spc # "failed" => IsPrefix(out, InOneRead)
    /\ Completed => out = InOneRead

\* the first read ended inside the `data: ` of the second line: the first
\* line's chunk is out, `data:` is carried over, the rest is still to be read
C32_Witness ==
    /\ spc = "reading"
    /\ Len(out) = 1
    /\ buffer = <<DATA>>
    /\ pos < Len(body)
    /\ Len(InOneRead) = 3

\* the stream has completed because the body ran out, with a `data: ` line
\* cut off before its newline
CutOffAtEnd ==
    /\ Completed
    /\ closed
    /\ pos = Len(body)
    /\ StartsWithData(WrittenRest)
    /\ \A i \in 1..Len(WrittenLines) : ~LineEvent(sprov, WrittenLines[i]).ends

\* C33: when the body ends, the text after its last newline is discarded.  A
\* last `data: ` line without its newline, a content delta or the [DONE]
\* marker, gives no chunk: the chunks are those of the newline-terminated
\* lines followed by the one terminal chunk that the end of the body gives,
\* and the cut-off line is still in buffer.
C33_CutOffLineDiscarded ==
    CutOffAtEnd =>
        /\ out = ChunksOf(sprov, WrittenLines) \o <<Terminal>>
        /\ \A i \in 1..(Len(out) - 1) : ~out[i].done
        /\ buffer = WrittenRest

\* one delta line was delivered whole, a second one was cut off by the end of
\* the body: one content chunk, then the terminal chunk
C33_Witness ==
    /\ CutOffAtEnd
    /\ spc = "returned"
    /\ WrittenRest = DeltaLine(sprov, "a")
    /\ WrittenLines = <<DeltaLine(sprov, "b")>>
    /\ out = <<Chunk("b", FALSE), Terminal>>

\* the chunks of out before the terminal one
RECURSIVE NonTerminal(_)
NonTerminal(cs) ==
    IF cs = <<>> THEN <<>>
    ELSE (IF Head(cs).done THEN <<>> ELSE <<Head(cs)>>) \o NonTerminal(Tail(cs))

\* the text of a content_block_delta event line of Claude's endpoint, '' when
\* its delta carries none; Undef for every other line
ClaudeDeltaText(line) ==
    CASE line = <<DATA, SP, "cbd_a">> -> "a"
      [] line = <<DATA, SP, "cbd_b">> -> "b"
      [] line = <<DATA, SP, "cbd_nodelta">> -> ""
      [] OTHER -> Undef

\* one chunk per content_block_delta line among ls, in order
RECURSIVE PerDeltaEvent(_)
PerDeltaEvent(ls) ==
    IF ls = <<>> THEN <<>>
    ELSE (IF ClaudeDeltaText(Head(ls)) # Undef
          THEN <<Chunk(ClaudeDeltaText(Head(ls)), FALSE)>> ELSE <<>>)
         \o PerDeltaEvent(Tail(ls))

\* C34: every chunk of an OpenAI or Qwen stream that is not terminal has
\* non-empty content.  The non-terminal chunks of a Claude stream are one per
\* content_block_delta event before the terminal marker, in order, with
\* content '' for an event whose delta carries no text, and none for events
\* of other types: a prefix of these while the stream runs, all of them once
\* it has completed.
C34_EmptyDeltas ==
    /\ sprov.name \in {"openai", "qwen"} =>
          \A i \in 1..Len(out) : ~out[i].done => out[i].content # ""
    /\ (sprov.name = "claude" /\ spc # "failed") =>
          LET expected == PerDeltaEvent(BeforeDone(WrittenLines))
          IN  /\ IsPrefix(NonTerminal(out), expected)
              /\ Completed => NonTerminal(out) = expected

\* a Claude stream of a delta event without text, a message_stop event and
\* the terminal marker
C34_Witness ==
    /\ sprov.name = "claude"
    /\ spc = "returned"
    /\ WrittenLines = << <<DATA, SP, "cbd_nodelta">>, <<DATA, SP, "msg_stop">>,
                         DoneLine >>
    /\ out = <<Chunk("", FALSE), Terminal>>

====
